---- MODULE Spec2Model ----
(***************************************************************************)
(* A model of the CBOR encoder of henryprecheur/cbor (episode 9): the      *)
(* value dispatcher Encoder.encode, the integer, string, container and     *)
(* struct writers, and the float minimisation of Encoder.writeFloat.       *)
(*                                                                         *)
(* Machine words are sequences of bits, most significant bit first, so     *)
(* that 64-bit arithmetic is exact: a uint64 is a sequence of 64 bits, a   *)
(* float64 is its IEEE-754 bit pattern.  Bytes written to the sink are     *)
(* numbers 0..255.                                                         *)
(***************************************************************************)
EXTENDS Integers, Sequences, FiniteSets, TLC

VARIABLES
    pc,      \* "ready": a fresh Encoder on an empty sink; "done": one call returned
    op,      \* the operation that ran: "none", "Encode", "writeInteger"
    major,   \* the major type handed to writeInteger (0 for the other operations)
    value,   \* the value given to the operation
    fails,   \* the sink: the numbers of the Write calls that it rejects
    out,     \* the bytes the sink holds
    err,     \* the error the call returned: "nil", "ErrIO", "ErrNotImplemented";
             \* "panic" when the call panicked and returned nothing
    late,    \* Write calls attempted after a Write call had failed
    nested,  \* an error arose inside the call: some encode step returned one
    heads,   \* the header bytes the call handed to the sink
    calls,   \* two calls of Encode running at once: the value of each, its
             \* Encoder, the steps it has still to take, and the error it
             \* returned
    sinks,   \* the two sinks given to NewEncoder for them
    encoders, \* the Encoders NewEncoder made for them: w names the sink
    serial,  \* calls made one after the other on one Encoder: the bytes its
             \* sink held at first, and the value and the error of each call
    early    \* what Encode of episodes 1, 2, 3, 4 wrote and returned for the
             \* same value on a sink that fails the same way

vars ==
    <<pc, op, major, value, fails, out, err, late, nested, heads, calls, sinks,
      encoders, serial, early>>

(***************************************************************************)
(* Bounds of the model.                                                    *)
(***************************************************************************)
\* the sink may reject any of its first MaxWrites Write calls
MaxWrites == 2
\* longest chain of pointers and interfaces around a value
MaxDepth == 3
\* most elements of a sequence and most entries of a map
MaxLen == 2
\* most fields of a struct built from the field samples
MaxFields == 2
\* a sink that fails more than once rejects any of its first MaxFlaky calls
MaxFlaky == 5
\* most calls made one after the other on one Encoder
MaxCalls == 3

(***************************************************************************)
(* Machine words.                                                          *)
(***************************************************************************)
Zeros(n) == [i \in 1..n |-> 0]

Ones(n) == [i \in 1..n |-> 1]

\* the w-bit word holding n (n < 2^31)
NatToBits(n, w) ==
    [i \in 1..w |-> IF w - i >= 31 THEN 0 ELSE (n \div (2 ^ (w - i))) % 2]

\* the number a word of at most 31 significant bits holds, by halves
BitsToNat(b) ==
    LET part[p \in (1..Len(b)) \X (1..Len(b))] ==
            IF p[1] = p[2] THEN b[p[1]]
            ELSE part[<<p[1], (p[1] + p[2]) \div 2>>]
                   * (IF p[2] - ((p[1] + p[2]) \div 2) >= 31 THEN 0
                      ELSE 2 ^ (p[2] - ((p[1] + p[2]) \div 2)))
                 + part[<<((p[1] + p[2]) \div 2) + 1, p[2]>>]
    IN  IF Len(b) = 0 THEN 0 ELSE part[<<1, Len(b)>>]

\* conversion to a narrower unsigned type: the low w bits
Low(b, w) == SubSeq(b, Len(b) - w + 1, Len(b))

\* conversion of an unsigned word to a wider type
ZeroExtend(b, w) == Zeros(w - Len(b)) \o b

\* conversion of a signed word to a wider type
SignExtend(b, w) == [i \in 1..(w - Len(b)) |-> b[1]] \o b

ShiftRight(b, n) ==
    IF n >= Len(b) THEN Zeros(Len(b))
    ELSE Zeros(n) \o SubSeq(b, 1, Len(b) - n)

ShiftLeft(b, n) ==
    IF n >= Len(b) THEN Zeros(Len(b))
    ELSE SubSeq(b, n + 1, Len(b)) \o Zeros(n)

BitOr(a, b) == [i \in 1..Len(a) |-> IF a[i] = 1 \/ b[i] = 1 THEN 1 ELSE 0]

BitAnd(a, b) == [i \in 1..Len(a) |-> IF a[i] = 1 /\ b[i] = 1 THEN 1 ELSE 0]

BitNot(a) == [i \in 1..Len(a) |-> 1 - a[i]]

\* a + 1, wrapping at the width of a
Inc(a) ==
    LET n == Len(a)
        \* the lowest zero bit flips to one, the ones below it to zero
        z == {i \in 1..n : a[i] = 0}
        k == IF z = {} THEN 0 ELSE CHOOSE i \in z : \A j \in z : j <= i
    IN  [i \in 1..n |-> IF i < k THEN a[i] ELSE IF i = k THEN 1 ELSE 0]

\* -a in two's complement, wrapping at the width of a
Neg(a) == Inc(BitNot(a))

\* a <= b for unsigned words of one width
LessEq(a, b) ==
    \/ a = b
    \/ \E i \in 1..Len(a) :
          /\ a[i] < b[i]
          /\ \A j \in 1..(i - 1) : a[j] = b[j]

\* a < 0 for a signed word
IsNegative(a) == a[1] = 1

\* math/bits.TrailingZeros64: the number of trailing zero bits, 64 for zero
TrailingZeros64(b) ==
    LET s == {i \in 1..Len(b) : b[i] = 1}
    IN  IF s = {} THEN Len(b)
        ELSE Len(b) - (CHOOSE i \in s : \A j \in s : j <= i)

\* the bytes of a word in big-endian order
BigEndian(b) ==
    [k \in 1..(Len(b) \div 8) |-> BitsToNat(SubSeq(b, 8 * k - 7, 8 * k))]

\* the word whose big-endian bytes are bs
FromBytes(bs) ==
    [i \in 1..(8 * Len(bs)) |-> NatToBits(bs[((i - 1) \div 8) + 1], 8)[((i - 1) % 8) + 1]]

(***************************************************************************)
(* The sink.  An Encoder writes to an io.Writer; a Write call either       *)
(* appends its bytes or fails and appends nothing.  The sink s records     *)
(* the bytes it holds and the number of Write calls made, and notes the    *)
(* two ways an error arises: a Write call failed (broke), encode met a     *)
(* kind it does not support (unsupported).  Either happens inside an       *)
(* encode step, and that step returns the error.                           *)
(***************************************************************************)
NewSink(f) ==
    [out |-> <<>>, n |-> 0, fails |-> f, broke |-> FALSE, late |-> 0,
     unsupported |-> FALSE, heads |-> {}, writes |-> <<>>]

Write(s, p) ==
    LET k == s.n + 1
        t == [s EXCEPT !.n = k, !.late = IF s.broke THEN @ + 1 ELSE @]
    IN  IF k \in s.fails
        THEN [s |-> [t EXCEPT !.broke = TRUE], err |-> "ErrIO"]
        ELSE [s |-> [t EXCEPT !.out = @ \o p, !.writes = Append(@, p)], err |-> "nil"]

\* encoding/binary.Write(e.w, binary.BigEndian, v): one Write of v's bytes
BinaryWrite(s, v) == Write(s, BigEndian(v))

\* if err != nil { return err }: the error of the result r is returned;
\* without one the next step runs on the sink that r left
ThenWrite(r, p) == IF r.err # "nil" THEN r ELSE Write(r.s, p)

ThenBinaryWrite(r, v) == IF r.err # "nil" THEN r ELSE BinaryWrite(r.s, v)

\* a call whose error the caller does not look at; a panic is no error
\* value, it ends the caller too
Dropped(r) == IF r.err = "panic" THEN r ELSE [s |-> r.s, err |-> "nil"]

\* return ErrNotImplemented
NotImplemented(s) == [s |-> [s EXCEPT !.unsupported = TRUE], err |-> "ErrNotImplemented"]

(***************************************************************************)
(* Major types, minor values, float layout.                                *)
(***************************************************************************)
majorPositiveInteger == 0
majorNegativeInteger == 1
majorByteString == 2
majorUnicodeString == 3
majorArray == 4
majorMap == 5
majorSimpleValue == 7

minorInt8 == 24
minorInt16 == 25
minorInt32 == 26
minorInt64 == 27

minorFloat16 == 25
minorFloat32 == 26
minorFloat64 == 27

simpleValueFalse == 20
simpleValueTrue == 21
simpleValueNil == 22

(***************************************************************************)
(* Headers and integers.                                                   *)
(***************************************************************************)
\* byte((major << 5) | minor), on bytes
header(maj, min) ==
    BitsToNat(BitOr(ShiftLeft(NatToBits(maj, 8), 5), NatToBits(min, 8)))

\* the header byte is noted in s.heads as it is handed to the sink
writeHeader(s, maj, min) ==
    Write([s EXCEPT !.heads = @ \cup {header(maj, min)}], <<header(maj, min)>>)

writeHeaderInteger(s, maj, min, v) ==
    ThenBinaryWrite(writeHeader(s, maj, min), v)

\* writeInteger with a fault: every value of five bits is written inline
writeIntegerInline31(s, maj, i) ==
    CASE LessEq(i, NatToBits(31, 64)) -> writeHeader(s, maj, BitsToNat(Low(i, 8)))
      [] LessEq(i, NatToBits(255, 64)) -> writeHeaderInteger(s, maj, minorInt8, Low(i, 8))
      [] LessEq(i, NatToBits(65535, 64)) -> writeHeaderInteger(s, maj, minorInt16, Low(i, 16))
      [] LessEq(i, ZeroExtend(Ones(32), 64)) -> writeHeaderInteger(s, maj, minorInt32, Low(i, 32))
      [] OTHER -> writeHeaderInteger(s, maj, minorInt64, i)

\* writeInteger with a fault: values up to 0xffff are written as one byte
writeIntegerOneByte(s, maj, i) ==
    CASE LessEq(i, NatToBits(23, 64)) -> writeHeader(s, maj, BitsToNat(Low(i, 8)))
      [] LessEq(i, NatToBits(65535, 64)) -> writeHeaderInteger(s, maj, minorInt8, Low(i, 8))
      [] LessEq(i, ZeroExtend(Ones(32), 64)) -> writeHeaderInteger(s, maj, minorInt32, Low(i, 32))
      [] OTHER -> writeHeaderInteger(s, maj, minorInt64, i)

\* writeInteger with a fault: the inline range ends one value too late
writeIntegerInline24(s, maj, i) ==
    CASE LessEq(i, NatToBits(24, 64)) -> writeHeader(s, maj, BitsToNat(Low(i, 8)))
      [] LessEq(i, NatToBits(255, 64)) -> writeHeaderInteger(s, maj, minorInt8, Low(i, 8))
      [] LessEq(i, NatToBits(65535, 64)) -> writeHeaderInteger(s, maj, minorInt16, Low(i, 16))
      [] LessEq(i, ZeroExtend(Ones(32), 64)) -> writeHeaderInteger(s, maj, minorInt32, Low(i, 32))
      [] OTHER -> writeHeaderInteger(s, maj, minorInt64, i)

\* the switch of writeInteger: the first case that holds is taken
writeInteger(s, maj, i) ==
    CASE LessEq(i, NatToBits(23, 64)) -> writeHeader(s, maj, BitsToNat(Low(i, 8)))
      [] LessEq(i, NatToBits(255, 64)) -> writeHeaderInteger(s, maj, minorInt8, Low(i, 8))
      [] LessEq(i, NatToBits(65535, 64)) -> writeHeaderInteger(s, maj, minorInt16, Low(i, 16))
      [] LessEq(i, ZeroExtend(Ones(32), 64)) -> writeHeaderInteger(s, maj, minorInt32, Low(i, 32))
      [] OTHER -> writeHeaderInteger(s, maj, minorInt64, i)

(***************************************************************************)
(* Floating point.  A float64 is its 64 bits: sign, 11 exponent bits, 52   *)
(* fraction bits; a float32 is its 32 bits: sign, 8 exponent bits, 23      *)
(* fraction bits.                                                          *)
(***************************************************************************)
float16ExpBits == 5
float16FracBits == 10
float16ExpBias == 15
float32ExpBits == 8
float32FracBits == 23
float64ExpBits == 11
float64ExpBias == 1023
float64FracBits == 52

float16MinZeros == float64FracBits - float16FracBits
float32MinZeros == float64FracBits - float32FracBits

\* (1 << float64ExpBits) - 1 and (1 << float64FracBits) - 1, as uint64
expMask == ZeroExtend(Ones(float64ExpBits), 64)
fracMask == ZeroExtend(Ones(float64FracBits), 64)

\* math.Float64bits
Float64bits(f) == f

\* math.Signbit
Signbit(f) == f[1] = 1

\* the exponent field and the fraction field of a float64
ExpField(f) == BitsToNat(SubSeq(f, 2, 12))
FracField(f) == SubSeq(f, 13, 64)

\* input == 0: true of +0 and of -0
IsZero(f) == SubSeq(f, 2, 64) = Zeros(63)

\* math.IsInf(f, 0)
IsInf(f) == ExpField(f) = 2047 /\ FracField(f) = Zeros(52)

\* math.IsNaN
IsNaN(f) == ExpField(f) = 2047 /\ FracField(f) # Zeros(52)

\* a == b on float64: a NaN equals nothing, the two zeros are equal
FloatEq(a, b) ==
    /\ ~IsNaN(a)
    /\ ~IsNaN(b)
    /\ \/ a = b
       \/ IsZero(a) /\ IsZero(b)

\* float32(f): the nearest float32, ties to even; too large a value becomes
\* an infinity, too small a value a subnormal or a zero
Float64To32(f) ==
    LET E == ExpField(f)
        frac == FracField(f)
        e == E - 1023
        sig == <<1>> \o frac
        \* bits of the 53-bit significand that do not fit
        shift == IF e >= -126 THEN 29 ELSE 29 + (-126 - e)
        q == IF shift >= 53 THEN 0 ELSE BitsToNat(SubSeq(sig, 1, 53 - shift))
        d == IF shift >= 53 THEN Zeros(shift - 53) \o sig
             ELSE SubSeq(sig, 53 - shift + 1, 53)
        up == IF d[1] = 1 /\ ((\E i \in 2..Len(d) : d[i] = 1) \/ q % 2 = 1)
              THEN 1 ELSE 0
        \* exponent field and fraction field as one number: a carry out of
        \* the fraction raises the exponent
        base == IF e >= -126 THEN (e + 126) * (2 ^ 23) ELSE 0
        pattern ==
            IF E = 2047
            THEN IF frac = Zeros(52) THEN 255 * (2 ^ 23)
                 ELSE 255 * (2 ^ 23) + 2 ^ 22
                      + BitsToNat(SubSeq(frac, 2, 23))
            ELSE IF E = 0 THEN 0
            ELSE IF e > 127 THEN 255 * (2 ^ 23)
            ELSE base + q + up
    IN  <<f[1]>> \o NatToBits(pattern, 31)

\* float64(g) for a float32 g: exact
Float32To64(g) ==
    LET E == BitsToNat(SubSeq(g, 2, 9))
        frac == SubSeq(g, 10, 32)
        ones == {i \in 1..23 : frac[i] = 1}
        \* the leading one of a subnormal fraction
        p == IF ones = {} THEN 0 ELSE CHOOSE i \in ones : \A j \in ones : i <= j
    IN  IF E = 255
        THEN <<g[1]>> \o Ones(11)
             \o (IF frac = Zeros(23) THEN Zeros(52)
                 ELSE <<1>> \o SubSeq(frac, 2, 23) \o Zeros(29))
        ELSE IF E = 0
        THEN IF ones = {} THEN <<g[1]>> \o Zeros(63)
             ELSE <<g[1]>> \o NatToBits(1023 - 126 - p, 11)
                  \o SubSeq(frac, p + 1, 23) \o Zeros(29 + p)
        ELSE <<g[1]>> \o NatToBits(E - 127 + 1023, 11) \o frac \o Zeros(29)

\* writeFloat16 with a fault: the sign bit is not copied
writeFloat16NoSign(s, negative, exp, frac) ==
    LET o2 == ShiftLeft(NatToBits(exp, 16), float16FracBits)
        o3 == BitOr(o2, Low(ShiftRight(frac, float64FracBits - float16FracBits), 16))
    IN  ThenBinaryWrite(writeHeader(s, majorSimpleValue, minorFloat16), o3)

writeFloat16(s, negative, exp, frac) ==
    LET o1 == IF negative THEN ShiftLeft(NatToBits(1, 16), 15) ELSE Zeros(16)
        o2 == BitOr(o1, ShiftLeft(NatToBits(exp, 16), float16FracBits))
        o3 == BitOr(o2, Low(ShiftRight(frac, float64FracBits - float16FracBits), 16))
    IN  ThenBinaryWrite(writeHeader(s, majorSimpleValue, minorFloat16), o3)

unpackFloat64(f) ==
    LET r == Float64bits(f)
    IN  [exp |-> BitsToNat(BitAnd(ShiftRight(r, float64FracBits), expMask))
                 - float64ExpBias,
         frac |-> BitAnd(r, fracMask)]

\* the float32 and float64 arms of writeFloat
writeFloat32(s, input) ==
    ThenBinaryWrite(writeHeader(s, majorSimpleValue, minorFloat32), Float64To32(input))

writeFloat64(s, input) ==
    ThenBinaryWrite(writeHeader(s, majorSimpleValue, minorFloat64), input)

writeFloat(s, input) ==
    LET u == unpackFloat64(input)
        exp == u.exp
        frac == u.frac
        tz == TrailingZeros64(frac)
        trailingZeros == IF tz > float64FracBits THEN float64FracBits ELSE tz
        f1 == BitOr(frac, ShiftLeft(NatToBits(1, 64), float64FracBits + 1))
        f2 == ShiftRight(f1, float16FracBits + 1)
        subnormal == -exp - float16ExpBias = float16FracBits - 1
        enough == trailingZeros >= float64FracBits - float16FracBits
    IN  CASE IsZero(input) -> writeFloat16(s, Signbit(input), 0, Zeros(64))
          [] IsInf(input) ->
                writeFloat16(s, Signbit(input), (2 ^ float16ExpBits) - 1, Zeros(64))
          [] IsNaN(input) ->
                writeFloat16(s, Signbit(input), (2 ^ float16ExpBits) - 1, frac)
          [] -14 <= exp /\ exp <= 15 /\ trailingZeros >= float16MinZeros ->
                writeFloat16(s, Signbit(input), exp + float16ExpBias, frac)
          [] subnormal /\ enough -> writeFloat16(s, Signbit(input), 0, f2)
          \* fallthrough: the float32 arm runs, its condition is not tested
          [] subnormal /\ ~enough -> writeFloat32(s, input)
          [] FloatEq(Float32To64(Float64To32(input)), input) -> writeFloat32(s, input)
          [] OTHER -> writeFloat64(s, input)

(***************************************************************************)
(* Runtime values, as package reflect shows them.  A value is a record     *)
(* with its kind and:                                                      *)
(*   Interface        elem (the Invalid value when the interface is nil)   *)
(*   Ptr              isNil, elem                                          *)
(*   Bool             b                                                    *)
(*   IntN, UintN      bits (N bits), Float32, Float64  bits                *)
(*   Array, Slice     elemKind, elems; an array obtained through an        *)
(*                    unexported field has the field ro as well            *)
(*   String           bytes (the UTF-8 form)                               *)
(*   Map              pairs: the entries, in the order MapKeys yields      *)
(*                    them; two entries never have the same key            *)
(*   Struct           fields: name, tag (the value of the cbor key), val,  *)
(*                    exported (the name starts with an upper-case letter  *)
(*                    of any alphabet: PkgPath is empty) and embedded      *)
(*                    (Anonymous)                                          *)
(*   Complex64, Complex128   re, im: the bits of the two parts             *)
(* Values of other kinds (Chan, Func) carry nothing.                       *)
(***************************************************************************)
Invalid == [kind |-> "Invalid"]

Interface(v) == [kind |-> "Interface", elem |-> v]

Ptr(v) == [kind |-> "Ptr", isNil |-> FALSE, elem |-> v]

NilPtr == [kind |-> "Ptr", isNil |-> TRUE, elem |-> Invalid]

Bool(b) == [kind |-> "Bool", b |-> b]

Word(k, bits) == [kind |-> k, bits |-> bits]

Slice(ek, elems) == [kind |-> "Slice", elemKind |-> ek, elems |-> elems]

Array(ek, elems) == [kind |-> "Array", elemKind |-> ek, elems |-> elems]

String(bytes) == [kind |-> "String", bytes |-> bytes]

Map(pairs) == [kind |-> "Map", pairs |-> pairs]

Struct(fields) == [kind |-> "Struct", fields |-> fields]

Other(k) == [kind |-> k]

\* a complex number whose parts have the bits re and im
Complex(k, re, im) == [kind |-> k, re |-> re, im |-> im]

IntKinds == {"Int", "Int8", "Int16", "Int32", "Int64"}

UintKinds == {"Uint", "Uint8", "Uint16", "Uint32", "Uint64"}

FloatKinds == {"Float32", "Float64"}

\* reflect.Value.Int: the value as an int64
ValueInt(x) == SignExtend(x.bits, 64)

\* reflect.Value.Uint: the value as a uint64
ValueUint(x) == ZeroExtend(x.bits, 64)

\* reflect.Value.Float with a fault: the bits of a float32 are taken as the
\* high half of a float64, not converted
ValueFloatBits(x) == IF x.kind = "Float32" THEN x.bits \o Zeros(32) ELSE x.bits

\* reflect.Value.Float: the value as a float64
ValueFloat(x) == IF x.kind = "Float32" THEN Float32To64(x.bits) ELSE x.bits

\* reflect.Value.Bytes: the bytes of a slice of uint8
ValueBytes(x) == [i \in 1..Len(x.elems) |-> BitsToNat(x.elems[i].bits)]

\* reflect.Value.IsNil of a pointer or an interface
IsNil(x) == IF x.kind = "Ptr" THEN x.isNil ELSE x.elem.kind = "Invalid"

(***************************************************************************)
(* Struct tags.  A tag is a string, here its bytes.                        *)
(***************************************************************************)
Comma == 44
TagSkip == <<45>>
OmitEmpty == <<111, 109, 105, 116, 101, 109, 112, 116, 121>>

\* the index of the first comma of a string, 0 when it has none
FirstComma(t) ==
    LET c == {i \in 1..Len(t) : t[i] = Comma}
    IN  IF c = {} THEN 0 ELSE CHOOSE i \in c : \A j \in c : i <= j

\* parseTag: the text before the first comma, and the text after it
parseTag(tag) ==
    LET c == FirstComma(tag)
    IN  IF c = 0 THEN [name |-> tag, opts |-> <<>>]
        ELSE [name |-> SubSeq(tag, 1, c - 1), opts |-> SubSeq(tag, c + 1, Len(tag))]

RECURSIVE Contains(_, _)
\* tagOptions.Contains: optionName is one of the comma-separated options
Contains(opts, optionName) ==
    IF Len(opts) = 0 THEN FALSE
    ELSE LET c == FirstComma(opts)
             first == IF c = 0 THEN opts ELSE SubSeq(opts, 1, c - 1)
         IN  \/ first = optionName
             \/ c # 0 /\ Contains(SubSeq(opts, c + 1, Len(opts)), optionName)

\* isEmptyValue: the zero or empty value of its type
isEmptyValue(x) ==
    CASE x.kind \in {"Array", "Slice"} -> Len(x.elems) = 0
      [] x.kind = "Map" -> Len(x.pairs) = 0
      [] x.kind = "String" -> Len(x.bytes) = 0
      [] x.kind = "Bool" -> ~x.b
      [] x.kind \in IntKinds \cup UintKinds -> x.bits = Zeros(Len(x.bits))
      [] x.kind \in FloatKinds -> IsZero(ValueFloat(x))
      [] x.kind \in {"Interface", "Ptr"} -> IsNil(x)
      [] OTHER -> FALSE

(***************************************************************************)
(* The writers and the dispatcher.  Each takes the sink s and returns      *)
(* [s |-> the sink afterwards, err |-> the error returned].                *)
(***************************************************************************)
writeByteString(s, b) ==
    ThenWrite(writeInteger(s, majorByteString, NatToBits(Len(b), 64)), b)

\* writeUnicodeString with a fault: the header carries the number of
\* characters, the bytes that are not continuation bytes
writeUnicodeStringRunes(s, str) ==
    ThenWrite(writeInteger(s, majorUnicodeString,
                           NatToBits(Cardinality({i \in 1..Len(str) : str[i] \notin 128..191}), 64)),
              str)

writeUnicodeString(s, str) ==
    ThenWrite(writeInteger(s, majorUnicodeString, NatToBits(Len(str), 64)), str)

\* a field survives unless its tag is "-" or it is empty and omitempty
FieldKept(f) ==
    /\ f.tag # TagSkip
    /\ ~(Contains(parseTag(f.tag).opts, OmitEmpty) /\ isEmptyValue(f.val))

\* FieldName with a fault: the rename target is ignored
FieldNameDeclared(f) == f.name

\* the key of a surviving field
FieldName(f) ==
    LET name == parseTag(f.tag).name
    IN  IF name = <<>> THEN f.name ELSE name

RECURSIVE ReadOnly(_)
\* a value obtained through an unexported field that is not embedded:
\* reflect marks it read-only (flagStickyRO), and Elem, Index, MapKeys,
\* MapIndex and Field hand the mark down to what they return.  Only an array
\* is asked for the mark (by Set), so only the arrays carry it here, as the
\* field ro
ReadOnly(x) ==
    CASE x.kind = "Array" ->
            [kind |-> "Array", elemKind |-> x.elemKind, elems |-> x.elems, ro |-> TRUE]
      [] x.kind = "Slice" ->
            Slice(x.elemKind, [i \in 1..Len(x.elems) |-> ReadOnly(x.elems[i])])
      [] x.kind \in {"Ptr", "Interface"} -> [x EXCEPT !.elem = ReadOnly(x.elem)]
      [] x.kind = "Map" ->
            Map([i \in 1..Len(x.pairs) |->
                    [key |-> ReadOnly(x.pairs[i].key), val |-> ReadOnly(x.pairs[i].val)]])
      [] x.kind = "Struct" ->
            Struct([i \in 1..Len(x.fields) |->
                       [x.fields[i] EXCEPT !.val = ReadOnly(x.fields[i].val)]])
      [] OTHER -> x

RECURSIVE EmbedReadOnly(_)
\* a value obtained through an unexported embedded field: it is read-only
\* itself (flagEmbedRO).  Elem of a pointer keeps the mark as it is; Elem of
\* an interface, Index, MapKeys and MapIndex hand it down as the mark of
\* ReadOnly; Field clears it, so the fields of an embedded struct are marked
\* by what they are themselves
EmbedReadOnly(x) ==
    CASE x.kind = "Ptr" -> [x EXCEPT !.elem = EmbedReadOnly(x.elem)]
      [] x.kind = "Struct" -> x
      [] OTHER -> ReadOnly(x)

RECURSIVE StructFields(_, _)
\* the first loop of writeStruct: the fields v[i..] that survive, in order;
\* v.Field(i) is read-only when the field is not exported
StructFields(v, i) ==
    IF i > Len(v) THEN <<>>
    ELSE IF FieldKept(v[i])
    THEN <<[Name |-> FieldName(v[i]),
            Value |-> IF v[i].exported THEN v[i].val
                      ELSE IF v[i].embedded THEN EmbedReadOnly(v[i].val)
                      ELSE ReadOnly(v[i].val)]>>
         \o StructFields(v, i + 1)
    ELSE StructFields(v, i + 1)

\* writeStructLength with a fault: the declared field count is written
writeStructLengthDeclared(s, x, fields) ==
    writeInteger(s, majorMap, NatToBits(Len(x.fields), 64))

\* the map header of writeStruct
writeStructLength(s, x, fields) ==
    writeInteger(s, majorMap, NatToBits(Len(fields), 64))

RECURSIVE encode(_, _)
RECURSIVE writeArrayLoop(_, _, _)
RECURSIVE writeMapLoop(_, _, _)
RECURSIVE writeStructLoop(_, _, _)

\* if err != nil { return err } before the steps that encode nested values
ThenEncode(r, x) == IF r.err # "nil" THEN r ELSE encode(r.s, x)

ThenMapLoop(r, v, i) == IF r.err # "nil" THEN r ELSE writeMapLoop(r.s, v, i)

ThenStructLoop(r, fields, i) == IF r.err # "nil" THEN r ELSE writeStructLoop(r.s, fields, i)

\* the loop of writeArray from index i on, r being the result of the step
\* before: its error is returned, and the end of the elements returns nil
writeArrayLoop(r, v, i) ==
    IF r.err # "nil" \/ i > Len(v.elems) THEN r
    ELSE writeArrayLoop(encode(r.s, v.elems[i]), v, i + 1)

\* writeArray with a fault: the loop starts at the second element
writeArrayFromSecond(s, v) ==
    writeArrayLoop(writeInteger(s, majorArray, NatToBits(Len(v.elems), 64)), v, 2)

writeArray(s, v) ==
    writeArrayLoop(writeInteger(s, majorArray, NatToBits(Len(v.elems), 64)), v, 1)

RECURSIVE KeyEq(_, _)
\* a == b as the map compares two keys of its key type: floats by value, so
\* that a NaN equals nothing, itself included; complex numbers part by part,
\* as floats; arrays element by element
\* and structs field by field; interfaces by the type and the value they
\* hold
KeyEq(a, b) ==
    CASE a.kind # b.kind -> FALSE
      [] a.kind \in FloatKinds -> FloatEq(ValueFloat(a), ValueFloat(b))
      [] a.kind = "Complex64" ->
            /\ FloatEq(Float32To64(a.re), Float32To64(b.re))
            /\ FloatEq(Float32To64(a.im), Float32To64(b.im))
      [] a.kind = "Complex128" -> FloatEq(a.re, b.re) /\ FloatEq(a.im, b.im)
      [] a.kind = "Array" ->
            /\ a.elemKind = b.elemKind
            /\ Len(a.elems) = Len(b.elems)
            /\ \A i \in 1..Len(a.elems) : KeyEq(a.elems[i], b.elems[i])
      [] a.kind = "Struct" ->
            /\ Len(a.fields) = Len(b.fields)
            /\ \A i \in 1..Len(a.fields) : KeyEq(a.fields[i].val, b.fields[i].val)
      [] a.kind = "Interface" -> KeyEq(a.elem, b.elem)
      [] OTHER -> a = b

\* reflect.Value.MapKeys: the key of every entry, in iteration order.  The
\* keys of a map differ pairwise: pointers and channels are equal only when
\* they are the same pointer or channel, so two entries whose keys point to
\* equal values have two pointers as keys.  A key carries the entry it is
\* the key of
MapKeys(v) == [i \in 1..Len(v.pairs) |-> [entry |-> i, key |-> v.pairs[i].key]]

\* reflect.Value.MapIndex for a key that MapKeys gave: the value of its
\* entry, which is the only entry whose key it can equal, or the zero Value
\* when it does not equal that key either
MapIndex(v, k) ==
    IF KeyEq(v.pairs[k.entry].key, k.key) THEN v.pairs[k.entry].val ELSE Invalid

\* the loop of writeMap from entry i on: the errors of the two encode calls
\* are dropped
writeMapLoop(s, v, i) ==
    IF i > Len(v.pairs) THEN [s |-> s, err |-> "nil"]
    ELSE ThenMapLoop(
             Dropped(ThenEncode(Dropped(encode(s, MapKeys(v)[i].key)),
                                MapIndex(v, MapKeys(v)[i]))),
             v, i + 1)

writeMap(s, v) ==
    ThenMapLoop(writeInteger(s, majorMap, NatToBits(Len(v.pairs), 64)), v, 1)

\* the second loop of writeStruct from field i on
writeStructLoop(s, fields, i) ==
    IF i > Len(fields) THEN [s |-> s, err |-> "nil"]
    ELSE ThenStructLoop(
             ThenEncode(writeUnicodeString(s, fields[i].Name), fields[i].Value),
             fields, i + 1)

\* writeStruct once the surviving fields are collected
writeStructFields(s, v, fields) ==
    ThenStructLoop(writeStructLength(s, v, fields), fields, 1)

writeStruct(s, v) == writeStructFields(s, v, StructFields(v.fields, 1))

\* encodePtr with a fault: one level is followed, a pointer or an interface
\* found behind it is not
encodePtrShallow(s, x) ==
    IF IsNil(x) THEN writeHeader(s, majorSimpleValue, simpleValueNil)
    ELSE IF x.elem.kind \in {"Ptr", "Interface"} THEN NotImplemented(s)
    ELSE encode(s, x.elem)

\* encodePtr with a fault: every pointer is written as nil
encodePtrAsNil(s, x) == writeHeader(s, majorSimpleValue, simpleValueNil)

\* case reflect.Ptr of encode
encodePtr(s, x) ==
    IF IsNil(x) THEN writeHeader(s, majorSimpleValue, simpleValueNil)
    ELSE encode(s, x.elem)

\* encodeInt with a fault: the magnitude of a negative i is -i
encodeIntNoOffset(s, x) ==
    LET i == ValueInt(x)
    IN  IF IsNegative(i) THEN writeInteger(s, majorNegativeInteger, Neg(i))
        ELSE writeInteger(s, majorPositiveInteger, i)

\* case reflect.Int, ..., reflect.Int64 of encode
encodeInt(s, x) ==
    LET i == ValueInt(x)
    IN  IF IsNegative(i) THEN writeInteger(s, majorNegativeInteger, Neg(Inc(i)))
        ELSE writeInteger(s, majorPositiveInteger, i)

\* encodeBool with a fault: the two minor values are exchanged
encodeBoolSwapped(s, x) ==
    LET minor == IF x.b THEN simpleValueFalse ELSE simpleValueTrue
    IN  writeHeader(s, majorSimpleValue, minor)

\* case reflect.Bool of encode
encodeBool(s, x) ==
    LET minor == IF x.b THEN simpleValueTrue ELSE simpleValueFalse
    IN  writeHeader(s, majorSimpleValue, minor)

\* encodeSlice with a fault: a slice of bytes is written as an array
encodeSliceNoBytes(s, x) == writeArray(s, x)

\* cases reflect.Array and reflect.Slice of encode: an array is copied with
\* Set to a slice of the same elements, and Set panics when the array is
\* read-only; the call ends there and returns nothing
encodeSlice(s, x) ==
    IF x.kind = "Array" /\ "ro" \in DOMAIN x THEN [s |-> s, err |-> "panic"]
    ELSE IF x.elemKind = "Uint8" THEN writeByteString(s, ValueBytes(x))
    ELSE writeArray(s, x)

\* encode: the switch on the kind of x
encode(s, x) ==
    CASE x.kind = "Invalid" -> writeHeader(s, majorSimpleValue, simpleValueNil)
      [] x.kind = "Interface" -> encode(s, x.elem)
      [] x.kind = "Ptr" -> encodePtr(s, x)
      [] x.kind = "Bool" -> encodeBool(s, x)
      [] x.kind \in IntKinds -> encodeInt(s, x)
      [] x.kind \in UintKinds -> writeInteger(s, majorPositiveInteger, ValueUint(x))
      [] x.kind \in {"Array", "Slice"} -> encodeSlice(s, x)
      [] x.kind = "String" -> writeUnicodeString(s, x.bytes)
      [] x.kind = "Map" -> writeMap(s, x)
      [] x.kind = "Struct" -> writeStruct(s, x)
      [] x.kind \in FloatKinds -> writeFloat(s, ValueFloat(x))
      [] OTHER -> NotImplemented(s)

\* Encoder.Encode on a fresh sink that rejects the Write calls in f
Encode(v, f) == encode(NewSink(f), v)

(***************************************************************************)
(* The earlier episodes.  writeHeader and writeHeaderInteger of episodes 3 *)
(* and 4 are those of episode 9.  A type switch looks at the type of the   *)
(* value; the values here have the predeclared type of their kind.         *)
(***************************************************************************)
\* episode 1: Encode
Encode1(s, v) ==
    CASE v.kind = "Invalid" -> Write(s, <<246>>)
      [] OTHER -> NotImplemented(s)

\* episode 2: Encode
Encode2(s, v) ==
    CASE v.kind = "Invalid" -> Write(s, <<246>>)
      [] v.kind = "Bool" -> IF v.b THEN Write(s, <<245>>) ELSE Write(s, <<244>>)
      [] OTHER -> NotImplemented(s)

\* episode 3: writeInteger, which takes no major type
writeInteger3(s, i) ==
    CASE LessEq(i, NatToBits(23, 64)) ->
            writeHeader(s, majorPositiveInteger, BitsToNat(Low(i, 8)))
      [] LessEq(i, NatToBits(255, 64)) ->
            writeHeaderInteger(s, majorPositiveInteger, minorInt8, Low(i, 8))
      [] LessEq(i, NatToBits(65535, 64)) ->
            writeHeaderInteger(s, majorPositiveInteger, minorInt16, Low(i, 16))
      [] LessEq(i, ZeroExtend(Ones(32), 64)) ->
            writeHeaderInteger(s, majorPositiveInteger, minorInt32, Low(i, 32))
      [] OTHER -> writeHeaderInteger(s, majorPositiveInteger, minorInt64, i)

\* episode 3: Encode
Encode3(s, v) ==
    CASE v.kind = "Invalid" -> Write(s, <<header(majorSimpleValue, simpleValueNil)>>)
      [] v.kind = "Bool" ->
            IF v.b THEN Write(s, <<header(majorSimpleValue, simpleValueTrue)>>)
            ELSE Write(s, <<header(majorSimpleValue, simpleValueFalse)>>)
      [] v.kind = "Uint64" -> writeInteger3(s, v.bits)
      [] OTHER -> NotImplemented(s)

\* episode 4: writeInteger
writeInteger4(s, i) ==
    CASE LessEq(i, NatToBits(23, 64)) ->
            writeHeader(s, majorPositiveInteger, BitsToNat(Low(i, 8)))
      [] LessEq(i, NatToBits(255, 64)) ->
            writeHeaderInteger(s, majorPositiveInteger, minorInt8, Low(i, 8))
      [] LessEq(i, NatToBits(65535, 64)) ->
            writeHeaderInteger(s, majorPositiveInteger, minorInt16, Low(i, 16))
      [] LessEq(i, ZeroExtend(Ones(32), 64)) ->
            writeHeaderInteger(s, majorPositiveInteger, minorInt32, Low(i, 32))
      [] OTHER -> writeHeaderInteger(s, majorPositiveInteger, minorInt64, i)

\* reflect.ValueOf(x.Interface()): the content of an interface, or x itself
ValueOfInterface(x) == IF x.kind = "Interface" THEN x.elem ELSE x

RECURSIVE Encode4(_, _)
\* episode 4: Encode
Encode4(s, x) ==
    CASE x.kind = "Invalid" -> writeHeader(s, majorSimpleValue, simpleValueNil)
      [] x.kind = "Ptr" ->
            IF IsNil(x) THEN writeHeader(s, majorSimpleValue, simpleValueNil)
            ELSE Encode4(s, ValueOfInterface(x.elem))
      [] x.kind = "Bool" ->
            writeHeader(s, majorSimpleValue,
                        IF x.b THEN simpleValueTrue ELSE simpleValueFalse)
      [] x.kind \in UintKinds -> writeInteger4(s, ValueUint(x))
      [] OTHER -> NotImplemented(s)

(***************************************************************************)
(* The inputs the operations are applied to.                               *)
(***************************************************************************)
\* the sinks: sound, rejecting one Write call, or rejecting all from one on
Sinks ==
    {{}} \cup {{k} : k \in 1..MaxWrites} \cup {k..MaxWrites : k \in 1..MaxWrites}

\* the uint64 with the given low bytes
U64(bs) == ZeroExtend(FromBytes(bs), 64)

\* uint64 values around each threshold of writeInteger
UintSamples ==
    {U64(<<n>>) : n \in {0, 1, 10, 23, 24, 25, 28, 31, 100, 255}}
    \cup {U64(<<1, 0>>), U64(<<3, 231>>), U64(<<3, 232>>), U64(<<255, 255>>),
          U64(<<1, 0, 0>>), U64(<<15, 66, 64>>), U64(<<255, 255, 255, 255>>),
          U64(<<1, 0, 0, 0, 0>>), U64(<<232, 212, 165, 16, 0>>),
          U64(<<127, 255, 255, 255, 255, 255, 255, 255>>),
          U64(<<128, 0, 0, 0, 0, 0, 0, 0>>),
          U64(<<255, 255, 255, 255, 255, 255, 255, 255>>)}

Majors ==
    {majorPositiveInteger, majorNegativeInteger, majorByteString,
     majorUnicodeString, majorArray, majorMap, majorSimpleValue}

\* int64 values: the non-negative samples and, as their complements, the
\* negative values whose magnitudes are those samples
Int64Samples ==
    LET nonneg == {u \in UintSamples : u[1] = 0}
    IN  nonneg \cup {BitNot(u) : u \in nonneg}

IntegerValues ==
    {Word("Int64", b) : b \in Int64Samples}
    \cup {Word("Int", b) : b \in {U64(<<0>>), U64(<<24>>), BitNot(U64(<<0>>)), BitNot(U64(<<24>>))}}
    \cup {Word("Int8", FromBytes(<<n>>)) : n \in {0, 23, 24, 127, 128, 231, 232, 255}}
    \cup {Word("Int16", FromBytes(bs)) :
            bs \in {<<0, 24>>, <<127, 255>>, <<128, 0>>, <<254, 255>>, <<255, 0>>, <<255, 255>>}}
    \cup {Word("Int32", FromBytes(bs)) :
            bs \in {<<0, 1, 0, 0>>, <<127, 255, 255, 255>>, <<128, 0, 0, 0>>,
                    <<255, 254, 255, 255>>, <<255, 255, 255, 255>>}}
    \cup {Word("Uint64", b) : b \in UintSamples}
    \cup {Word("Uint", b) : b \in {U64(<<23>>), U64(<<1, 0>>)}}
    \cup {Word("Uint8", FromBytes(<<n>>)) : n \in {0, 23, 24, 255}}
    \cup {Word("Uint16", FromBytes(bs)) : bs \in {<<0, 255>>, <<1, 0>>, <<255, 255>>}}
    \cup {Word("Uint32", FromBytes(bs)) : bs \in {<<0, 1, 0, 0>>, <<255, 255, 255, 255>>}}

\* the float64 with sign bit sg, exponent field E and the fraction bits at
\* the positions in fr set (position 0 is the least significant)
F64(sg, E, fr) ==
    <<sg>> \o NatToBits(E, 11) \o [i \in 1..52 |-> IF (52 - i) \in fr THEN 1 ELSE 0]

\* exponent fields: zero and subnormal, the ends of the float32 and float16
\* ranges, normal and subnormal, and infinity and NaN
ExpSamples ==
    {0, 1, 873, 874, 896, 897, 998, 999, 1000, 1007, 1008, 1009, 1023, 1038,
     1039, 1150, 1151, 2046, 2047}

\* fractions: around the 10 bits of a float16 and the 23 bits of a float32
FracSamples ==
    {{}, {51}, 42..51, 43..51, {42}, {41}, {41, 51}, {29}, {28}, {28, 29},
     29..51, 28..51, {0}, 0..51, {0, 51}}

Float64Samples == {F64(sg, E, fr) : sg \in {0, 1}, E \in ExpSamples, fr \in FracSamples}

\* the float32 with sign bit sg, exponent field E and fraction bits fr set
F32(sg, E, fr) ==
    <<sg>> \o NatToBits(E, 8) \o [i \in 1..23 |-> IF (23 - i) \in fr THEN 1 ELSE 0]

Float32Samples ==
    {F32(sg, E, fr) : sg \in {0, 1}, E \in {0, 1, 103, 112, 113, 127, 142, 143, 254, 255},
                      fr \in {{}, {22}, 13..22, {12}, {0}}}

FloatValues ==
    {Word("Float64", b) : b \in Float64Samples}
    \cup {Word("Float32", b) : b \in Float32Samples}

\* small values
IntValue(n) == Word("Int", U64(<<n>>))
StrA == <<97>>
StrB == <<98>>
Chan == Other("Chan")

\* the values of interface type found as elements: numbers, text, nil, a
\* channel, and containers holding a channel or a complex number
Elems ==
    {Interface(IntValue(1)), Interface(String(StrA)), Interface(Invalid),
     Interface(Chan),
     Interface(Slice("Interface", <<Interface(Chan)>>)),
     Interface(Map(<<[key |-> String(StrA),
                      val |-> Interface(Complex("Complex128", F64(0, 1023, {}),
                                                F64(0, 0, {})))]>>))}

\* the sequences over S of length 0..n
SeqsUpTo(S, n) == UNION {[1..k -> S] : k \in 0..n}

\* []interface{} values
InterfaceSlices == {Slice("Interface", es) : es \in SeqsUpTo(Elems, MaxLen)}

KeySamples == {String(StrA), String(StrB), Chan}

\* maps with keys of one of the key values and values of interface type, in
\* every order of iteration
MapValues ==
    {Map(ps) : ps \in {q \in SeqsUpTo([key : KeySamples, val : Elems], MaxLen) :
                          \A i, j \in 1..Len(q) : i # j => q[i].key # q[j].key}}

\* the struct fields the samples are built from: the i-th field is named by
\* the i-th capital letter
FieldTags == {<<>>, <<120>>, TagSkip, <<44>> \o OmitEmpty, <<120, 44>> \o OmitEmpty}

FieldVals ==
    {IntValue(0), IntValue(1), Slice("Int", <<IntValue(2), IntValue(3)>>),
     String(<<>>), Chan}

StructSamples ==
    {Struct([i \in 1..Len(fs) |-> [name |-> <<64 + i>>, exported |-> TRUE, embedded |-> FALSE,
                                tag |-> fs[i].tag, val |-> fs[i].val]]) :
        fs \in SeqsUpTo([tag : FieldTags, val : FieldVals], MaxFields)}

\* the struct of TestStructTag
TagTestStruct ==
    Struct(<<[name |-> <<65, 70, 105, 101, 108, 100>>,
              exported |-> TRUE, embedded |-> FALSE, tag |-> <<97>>,
              val |-> IntValue(1)],
             [name |-> <<66, 70, 105, 101, 108, 100>>,
              exported |-> TRUE, embedded |-> FALSE, tag |-> <<98>>,
              val |-> Slice("Int", <<IntValue(2), IntValue(3)>>)],
             [name |-> <<79, 109, 105, 116, 49>>,
              exported |-> TRUE, embedded |-> FALSE, tag |-> <<99, 44>> \o OmitEmpty,
              val |-> IntValue(0)],
             [name |-> <<79, 109, 105, 116, 50>>,
              exported |-> TRUE, embedded |-> FALSE, tag |-> <<44>> \o OmitEmpty,
              val |-> IntValue(0)],
             [name |-> <<73, 103, 110, 111, 114, 101>>,
              exported |-> TRUE, embedded |-> FALSE, tag |-> TagSkip,
              val |-> Word("Int", U64(<<48, 57>>))]>>)

\* the second struct of TestStruct
PlainTestStruct ==
    Struct(<<[name |-> <<97>>,
              exported |-> FALSE, embedded |-> FALSE, tag |-> <<>>, val |-> IntValue(1)],
             [name |-> <<98>>,
              exported |-> FALSE, embedded |-> FALSE, tag |-> <<>>,
              val |-> Slice("Int", <<IntValue(2), IntValue(3)>>)]>>)

StructValues == StructSamples \cup {TagTestStruct, PlainTestStruct}

\* the arrays of TestArray: nested slices and a slice of 25 numbers, plus an
\* empty slice and an array of a non-interface element type
NestedSlice ==
    Slice("Interface",
          <<Interface(IntValue(1)),
            Interface(Slice("Interface", <<Interface(IntValue(2)), Interface(IntValue(3))>>)),
            Interface(Slice("Interface", <<Interface(IntValue(4)), Interface(IntValue(5))>>))>>)

LongSlice == Slice("Interface", [i \in 1..25 |-> Interface(IntValue(i))])

ArraySamples ==
    {NestedSlice, LongSlice, Slice("Int", <<>>),
     Array("Int", <<IntValue(24), IntValue(2)>>)}

\* the maps of TestMap, in both orders of iteration
MapSamples ==
    {Map(<<[key |-> IntValue(1), val |-> IntValue(2)],
           [key |-> IntValue(3), val |-> IntValue(4)]>>),
     Map(<<[key |-> IntValue(3), val |-> IntValue(4)],
           [key |-> IntValue(1), val |-> IntValue(2)]>>),
     Map(<<[key |-> String(StrA), val |-> Interface(IntValue(1))],
           [key |-> String(StrB),
            val |-> Interface(Slice("Int", <<IntValue(2), IntValue(3)>>))]>>),
     Map(<<[key |-> String(StrB),
            val |-> Interface(Slice("Int", <<IntValue(2), IntValue(3)>>))],
           [key |-> String(StrA), val |-> Interface(IntValue(1))]>>)}

\* maps with one key that is a NaN or holds one, next to 1+0i:
\* map[float64]int{math.NaN(): 1}, map[[1]float64]int{{math.NaN()}: 1},
\* map[interface{}]int{math.NaN(): 1}, and the same of complex numbers;
\* and map[*int]int{&a: 1, &b: 2} with a and b both 5, in both orders of
\* iteration
CompositeKeyMaps ==
    {Map(<<[key |-> k, val |-> IntValue(1)]>>) :
        k \in {Word("Float64", F64(0, 2047, {51})),
               Array("Float64", <<Word("Float64", F64(0, 2047, {51}))>>),
               Interface(Word("Float64", F64(0, 2047, {51}))),
               Complex("Complex128", F64(0, 1023, {}), F64(0, 0, {})),
               Complex("Complex128", F64(0, 2047, {51}), F64(0, 2047, {51})),
               Array("Complex64", <<Complex("Complex64", F32(0, 255, {22}),
                                            F32(0, 255, {22}))>>),
               Interface(Complex("Complex128", F64(0, 2047, {51}),
                                 F64(0, 2047, {51})))}}
    \cup
    {Map(<<[key |-> Ptr(IntValue(5)), val |-> IntValue(1)],
           [key |-> Ptr(IntValue(5)), val |-> IntValue(2)]>>),
     Map(<<[key |-> Ptr(IntValue(5)), val |-> IntValue(2)],
           [key |-> Ptr(IntValue(5)), val |-> IntValue(1)]>>)}

ContainerValues ==
    InterfaceSlices \cup MapValues \cup ArraySamples \cup MapSamples \cup CompositeKeyMaps
    \cup {Slice("Int", <<IntValue(2), IntValue(3)>>),
          Struct(<<[name |-> <<65>>,
                    exported |-> TRUE, embedded |-> FALSE, tag |-> <<>>, val |-> Chan]>>),
          Struct(<<[name |-> <<65>>,
                    exported |-> TRUE, embedded |-> FALSE, tag |-> <<>>,
                    val |-> Map(<<[key |-> IntValue(1), val |-> Chan]>>)]>>)}

\* a uint8
Byte(n) == Word("Uint8", NatToBits(n, 8))

\* the []byte holding the numbers bs
ByteSlice(bs) == Slice("Uint8", [i \in 1..Len(bs) |-> Byte(bs[i])])

\* byte slices: short ones over a few bytes, the cases of TestByteString
\* (with the array behind a pointer), and lengths around the thresholds of
\* the length header
ByteValues ==
    {ByteSlice(bs) : bs \in SeqsUpTo({0, 1, 255}, MaxLen)}
    \cup {ByteSlice(<<1, 2, 3, 4>>), ByteSlice(<<104, 101, 108, 108, 111>>),
          Array("Uint8", <<Byte(1), Byte(2)>>),
          Ptr(Array("Uint8", <<Byte(1), Byte(2)>>))}
    \cup {ByteSlice([i \in 1..n |-> (i - 1) % 256]) : n \in {23, 24, 255, 256}}

\* the UTF-8 form of a code point, as a string literal holds it
Utf8(cp) ==
    IF cp < 128 THEN <<cp>>
    ELSE IF cp < 2048 THEN <<192 + (cp \div 64), 128 + (cp % 64)>>
    ELSE IF cp < 65536
    THEN <<224 + (cp \div 4096), 128 + ((cp \div 64) % 64), 128 + (cp % 64)>>
    ELSE <<240 + (cp \div 262144), 128 + ((cp \div 4096) % 64),
           128 + ((cp \div 64) % 64), 128 + (cp % 64)>>

RECURSIVE Utf8String(_)
\* the bytes of the string of the characters cs
Utf8String(cs) == IF cs = <<>> THEN <<>> ELSE Utf8(Head(cs)) \o Utf8String(Tail(cs))

\* characters of one, two, three and four bytes: a, u-umlaut, U+6C34, U+10151
Runes == {97, 252, 27700, 65873}

\* strings: short ones over the characters, the cases of TestUnicodeString,
\* and lengths around the thresholds of the length header
TextValues ==
    {String(Utf8String(cs)) : cs \in SeqsUpTo(Runes, MaxLen)}
    \cup {String(<<73, 69, 84, 70>>), String(<<34, 92>>)}
    \cup {String([i \in 1..n |-> 97]) : n \in {23, 24, 256}}
    \cup {String(Utf8String([i \in 1..8 |-> 27700]))}

StringValues == ByteValues \cup TextValues

\* sinks that reject any set of their first MaxFlaky Write calls
FlakySinks == SUBSET (1..MaxFlaky)

\* values written with several Write calls: a number, a string, a slice, a
\* map, a struct, and a slice that holds a map and a number after it
FlakyValues ==
    {Word("Uint", U64(<<1, 0>>)), String(StrA),
     Slice("Int", <<IntValue(2), IntValue(3)>>),
     Map(<<[key |-> String(StrA), val |-> IntValue(1)]>>),
     PlainTestStruct,
     Slice("Interface",
           <<Interface(Map(<<[key |-> String(StrA), val |-> IntValue(1)]>>)),
             Interface(IntValue(2))>>)}

\* what the sink of an Encoder may hold when NewEncoder is given it
InitialContents == {<<>>, <<255>>}

\* values given to calls made one after the other: values that are encoded,
\* a channel, and a slice that holds a channel after a number
SerialValues ==
    {IntValue(1), String(StrA), Slice("Int", <<IntValue(2), IntValue(3)>>),
     Word("Float64", F64(0, 1023, {})), Chan,
     Slice("Interface", <<Interface(IntValue(1)), Interface(Chan)>>)}

\* elements of sequences, with their kind: bytes, and values of other
\* element types, among them the one-byte signed integer
SequenceElems ==
    {[k |-> "Uint8", e |-> Byte(1)], [k |-> "Uint8", e |-> Byte(255)],
     [k |-> "Int8", e |-> Word("Int8", NatToBits(1, 8))],
     [k |-> "Uint16", e |-> Word("Uint16", NatToBits(1, 16))],
     [k |-> "Int", e |-> IntValue(2)],
     [k |-> "Bool", e |-> Bool(TRUE)],
     [k |-> "Interface", e |-> Interface(String(StrA))]}

\* the slices of up to MaxLen elements of one element type
SliceValues ==
    UNION {{Slice(k, es) : es \in SeqsUpTo({x.e : x \in {y \in SequenceElems : y.k = k}},
                                            MaxLen)} :
           k \in {x.k : x \in SequenceElems}}

\* slices, the arrays of the same elements, pointers to both, and structs
\* that hold one in a field, exported (A, A with diaeresis) or not (a), or
\* embedded: the embedded field inner holds a struct with the field B [1]int
\* or c [1]int, a pointer to the first, or an array, a slice or an interface
SequenceValues ==
    SliceValues \cup {Array(x.elemKind, x.elems) : x \in SliceValues}
    \cup {Ptr(x) : x \in SliceValues}
    \cup {Ptr(Array(x.elemKind, x.elems)) : x \in SliceValues}
    \cup {Struct(<<[name |-> f.name, exported |-> f.exported, embedded |-> FALSE,
                     tag |-> <<>>, val |-> x]>>) :
             f \in {[name |-> <<65>>, exported |-> TRUE],
                    [name |-> <<195, 132>>, exported |-> TRUE],
                    [name |-> <<97>>, exported |-> FALSE]},
             x \in {Slice("Int8", <<Word("Int8", NatToBits(1, 8))>>),
                    Array("Int8", <<Word("Int8", NatToBits(1, 8))>>),
                    Array("Uint8", <<>>),
                    Interface(Array("Uint8", <<Byte(1)>>)),
                    Ptr(Array("Int", <<IntValue(2)>>)),
                    Slice("Interface", <<Interface(Array("Int", <<>>))>>)}}
    \cup {Struct(<<[name |-> <<105, 110, 110, 101, 114>>, exported |-> FALSE,
                     embedded |-> TRUE, tag |-> <<>>, val |-> x]>>) :
             x \in
                 {Struct(<<[name |-> <<66>>, exported |-> TRUE, embedded |-> FALSE,
                            tag |-> <<>>, val |-> Array("Int", <<IntValue(2)>>)]>>),
                  Ptr(Struct(<<[name |-> <<66>>, exported |-> TRUE, embedded |-> FALSE,
                                tag |-> <<>>, val |-> Array("Int", <<IntValue(2)>>)]>>)),
                  Struct(<<[name |-> <<99>>, exported |-> FALSE, embedded |-> FALSE,
                            tag |-> <<>>, val |-> Array("Int", <<IntValue(2)>>)]>>),
                  Array("Int8", <<Word("Int8", NatToBits(1, 8))>>),
                  Slice("Interface", <<Interface(Array("Int", <<IntValue(2)>>))>>),
                  Interface(Array("Uint8", <<Byte(1)>>))}}

\* values given to two calls of Encode that run at once: they make from no
\* Write call to nine; a channel, and a struct with an array in an
\* unexported field; the map of TestMap and a map that holds a channel,
\* each in both orders of iteration
ConcurrentValues ==
    {IntValue(1), Word("Uint", U64(<<1, 0>>)), String(StrA),
     Slice("Int", <<IntValue(2), IntValue(3)>>), Word("Float64", F64(0, 1023, {})),
     Map(<<[key |-> String(StrA), val |-> Interface(IntValue(1))],
           [key |-> String(StrB),
            val |-> Interface(Slice("Int", <<IntValue(2), IntValue(3)>>))]>>),
     Map(<<[key |-> String(StrB),
            val |-> Interface(Slice("Int", <<IntValue(2), IntValue(3)>>))],
           [key |-> String(StrA), val |-> Interface(IntValue(1))]>>),
     Map(<<[key |-> String(StrA), val |-> Interface(Chan)],
           [key |-> String(StrB), val |-> Interface(IntValue(1))]>>),
     Map(<<[key |-> String(StrB), val |-> Interface(IntValue(1))],
           [key |-> String(StrA), val |-> Interface(Chan)]>>),
     PlainTestStruct, Chan,
     Struct(<<[name |-> <<97>>, exported |-> FALSE, embedded |-> FALSE,
               tag |-> <<>>, val |-> Array("Int", <<IntValue(2)>>)]>>)}


\* nil, a typed nil pointer, and the two booleans
SimpleValues == {Invalid, NilPtr, Bool(FALSE), Bool(TRUE)}

\* values for the Encode of every episode: nil, booleans, unsigned integers
\* of every width, pointers to them, and values no early episode takes
EpisodeValues ==
    SimpleValues
    \cup {Word("Uint64", u) : u \in UintSamples}
    \cup {Word("Uint", U64(<<10>>)), Word("Uint8", FromBytes(<<255>>)),
          Word("Uint16", FromBytes(<<3, 232>>)),
          Word("Uint32", FromBytes(<<255, 255, 255, 255>>))}
    \cup {Ptr(Word("Uint64", U64(<<24>>))), Ptr(Bool(TRUE)), Ptr(NilPtr),
          Ptr(Ptr(Word("Uint16", FromBytes(<<3, 232>>)))),
          Ptr(Interface(Word("Uint8", FromBytes(<<255>>)))),
          Ptr(Interface(Invalid))}
    \cup {IntValue(1), String(StrA), Ptr(IntValue(1))}

\* values of kinds that encode has no case for
UnsupportedValues ==
    {Chan, Complex("Complex64", F32(0, 127, {}), F32(0, 0, {})),
     Complex("Complex128", F64(0, 1023, {}), F64(0, 0, {})), Other("Func"),
     Other("UnsafePointer"), Other("Uintptr")}

\* the values a chain of pointers and interfaces ends in
ChainBases ==
    {Word("Uint", U64(<<10>>)), Word("Int64", Ones(64)), Bool(TRUE),
     String(StrA), Slice("Int", <<IntValue(2), IntValue(3)>>),
     Array("Uint8", <<Word("Uint8", FromBytes(<<1>>)), Word("Uint8", FromBytes(<<2>>))>>),
     Word("Float64", F64(0, 1023, {})), Chan, PlainTestStruct}

\* the chains: a pointer first (Encode receives the content of an interface,
\* never an interface), and no interface directly inside an interface
ChainShapes ==
    {sh \in UNION {[1..k -> {"Ptr", "Interface"}] : k \in 1..MaxDepth} :
        /\ sh[1] = "Ptr"
        /\ \A i \in 1..(Len(sh) - 1) : ~(sh[i] = "Interface" /\ sh[i + 1] = "Interface")}

RECURSIVE Chain(_, _)
\* the chain of shape sh around v, every level holding the next
Chain(sh, v) ==
    IF Len(sh) = 0 THEN v
    ELSE IF Head(sh) = "Ptr" THEN Ptr(Chain(Tail(sh), v))
    ELSE Interface(Chain(Tail(sh), v))

\* the chain of shape sh whose last level is nil
NilChain(sh) ==
    Chain(SubSeq(sh, 1, Len(sh) - 1),
          IF sh[Len(sh)] = "Ptr" THEN NilPtr ELSE Interface(Invalid))

ChainValues ==
    {Chain(sh, v) : sh \in ChainShapes, v \in ChainBases}
    \cup {NilChain(sh) : sh \in ChainShapes}

(***************************************************************************)
(* The operations.                                                         *)
(***************************************************************************)
\* NewEncoder with a fault: the package keeps one Encoder and hands it to
\* every caller, so its w is the sink of the latest caller
NewEncoderShared(es, w) == [i \in 1..Len(es) + 1 |-> [w |-> w]]

\* NewEncoder(w), es being the Encoders made before: &Encoder{w} is one more
\* Encoder, and the pointer returned is its place in the result
NewEncoder(es, w) == Append(es, [w |-> w])

(***************************************************************************)
(* Encode step by step, for calls that run at once.  A step of a call is   *)
(* [t, d, p].  t = "Write": a Write call of the bytes p on e.w;            *)
(* t = "ErrNotImplemented": the return of that error; t = "panic": a       *)
(* panic; t = "Dropped": the return of an encode call whose error the      *)
(* caller does not look at.  d counts the calls around the step whose      *)
(* error is dropped.                                                       *)
(***************************************************************************)
\* the steps of a writer that returns its first error: the Write calls it
\* makes while none fails, r being what it does on a sink that takes every
\* one, and then the return of its error
StepsOf(r) ==
    [i \in 1..Len(r.s.writes) |-> [t |-> "Write", d |-> 0, p |-> r.s.writes[i]]]
    \o (IF r.err = "nil" THEN <<>> ELSE <<[t |-> r.err, d |-> 0, p |-> <<>>]>>)

\* e.encode(x) as a statement: the steps of the call, and its return
DroppedSteps(steps) ==
    [i \in 1..Len(steps) |-> [steps[i] EXCEPT !.d = @ + 1]]
    \o <<[t |-> "Dropped", d |-> 1, p |-> <<>>]>>

RECURSIVE Concat(_)
\* the sequences of ss one after the other
Concat(ss) == IF ss = <<>> THEN <<>> ELSE Head(ss) \o Concat(Tail(ss))

RECURSIVE encodeSteps(_)
\* encode(x) step by step: the steps it takes in the order it takes them.
\* A step that returns an error ends every call around it up to the nearest
\* one whose error is dropped
encodeSteps(x) ==
    CASE x.kind = "Interface" \/ (x.kind = "Ptr" /\ ~IsNil(x)) -> encodeSteps(x.elem)
      [] /\ x.kind \in {"Array", "Slice"}
         /\ ~(x.kind = "Array" /\ "ro" \in DOMAIN x)
         /\ x.elemKind # "Uint8" ->
            StepsOf(writeInteger(NewSink({}), majorArray, NatToBits(Len(x.elems), 64)))
            \o Concat([i \in 1..Len(x.elems) |-> encodeSteps(x.elems[i])])
      [] x.kind = "Map" ->
            StepsOf(writeInteger(NewSink({}), majorMap, NatToBits(Len(x.pairs), 64)))
            \o Concat([i \in 1..Len(x.pairs) |->
                          DroppedSteps(encodeSteps(MapKeys(x)[i].key))
                          \o DroppedSteps(encodeSteps(MapIndex(x, MapKeys(x)[i])))])
      [] x.kind = "Struct" ->
            StepsOf(writeStructLength(NewSink({}), x, StructFields(x.fields, 1)))
            \o Concat([i \in 1..Len(StructFields(x.fields, 1)) |->
                          StepsOf(writeUnicodeString(NewSink({}),
                                                     StructFields(x.fields, 1)[i].Name))
                          \o encodeSteps(StructFields(x.fields, 1)[i].Value)])
      [] OTHER -> StepsOf(encode(NewSink({}), x))

RECURSIVE Resume(_, _, _)
\* a call after one of its steps, at depth d, returned ret, todo being the steps
\* after that one: the steps from its next Write call on, and the error it
\* returned when there is none.  An error skips the steps up to the return
\* of the call that drops it; a panic ends the call
Resume(todo, ret, d) ==
    IF ret = "panic" THEN [todo |-> <<>>, err |-> "panic"]
    ELSE IF todo = <<>> THEN [todo |-> <<>>, err |-> ret]
    ELSE IF ret # "nil"
    THEN IF Head(todo).t = "Dropped" /\ Head(todo).d = d
         THEN Resume(Tail(todo), "nil", d - 1)
         ELSE Resume(Tail(todo), ret, d)
    ELSE CASE Head(todo).t = "Write" -> [todo |-> todo, err |-> "nil"]
           [] Head(todo).t = "Dropped" -> Resume(Tail(todo), "nil", Head(todo).d - 1)
           [] OTHER -> Resume(Tail(todo), Head(todo).t, Head(todo).d)

\* a call of e.Encode(v) that is about to start, e being its Encoder
Call(v, e) ==
    [v |-> v, e |-> e, todo |-> Resume(encodeSteps(v), "nil", 0).todo,
     err |-> Resume(encodeSteps(v), "nil", 0).err]

\* no call
NoCall == [v |-> Invalid, e |-> 0, todo |-> <<>>, err |-> "nil"]

Init ==
    /\ pc = "ready"
    /\ op = "none"
    /\ major = 0
    /\ value = Invalid
    /\ fails = {}
    /\ out = <<>>
    /\ err = "nil"
    /\ late = 0
    /\ nested = FALSE
    /\ heads = {}
    /\ calls = <<NoCall, NoCall>>
    /\ sinks = <<NewSink({}), NewSink({})>>
    /\ encoders = <<>>
    /\ serial = [init |-> <<>>, hist |-> <<>>]
    /\ early = <<>>

\* the state after a call that returned r
Finished(o, m, v, f, r) ==
    /\ out' = r.s.out
    /\ err' = r.err
    /\ late' = r.s.late
    /\ nested' = (r.s.broke \/ r.s.unsupported)
    /\ heads' = r.s.heads
    /\ pc' = "done"
    /\ op' = o
    /\ major' = m
    /\ value' = v
    /\ fails' = f
    /\ UNCHANGED <<calls, sinks, encoders, serial>>

\* the state after an operation of episode 9 alone
Returned(o, m, v, f, r) == Finished(o, m, v, f, r) /\ UNCHANGED early

\* writeInteger(m, v) on a fresh sink
WriteInteger ==
    /\ pc = "ready"
    /\ \E m \in Majors, v \in UintSamples, f \in Sinks :
          Returned("writeInteger", m, Word("Uint64", v), f,
                   writeInteger(NewSink(f), m, v))

\* Encode of an integer on a fresh sink
EncodeInteger ==
    /\ pc = "ready"
    /\ \E v \in IntegerValues, f \in Sinks : Returned("Encode", 0, v, f, Encode(v, f))

\* Encode of a float on a fresh sink
EncodeFloat ==
    /\ pc = "ready"
    /\ \E v \in FloatValues, f \in Sinks : Returned("Encode", 0, v, f, Encode(v, f))

\* NewEncoder is given the first sink and then the second, and two
\* goroutines call Encode, each on the Encoder made for it.  A sink takes
\* every Write call, or all but its second, or all but its third
StartEncodes ==
    /\ pc = "ready"
    /\ pc' = "running"
    /\ encoders' = NewEncoder(NewEncoder(<<>>, 1), 2)
    /\ \E v1, v2 \in ConcurrentValues, f1, f2 \in {{}, {2}, {3}} :
          /\ sinks' = <<NewSink(f1), NewSink(f2)>>
          /\ calls' = <<Call(v1, 1), Call(v2, 2)>>
    /\ UNCHANGED <<op, major, value, fails, out, err, late, nested, heads, serial, early>>

\* the call of goroutine g runs up to its next Write call, which it makes on
\* the w of its Encoder, and on from there, by what the Write call returned,
\* to the Write call after it or to its return
WriteStep(g) ==
    /\ pc = "running"
    /\ calls[g].todo # <<>>
    /\ sinks' = [sinks EXCEPT ![encoders[calls[g].e].w] =
                     Write(sinks[encoders[calls[g].e].w], Head(calls[g].todo).p).s]
    /\ calls' = [calls EXCEPT
                   ![g].todo = Resume(Tail(calls[g].todo),
                                      Write(sinks[encoders[calls[g].e].w],
                                            Head(calls[g].todo).p).err,
                                      Head(calls[g].todo).d).todo,
                   ![g].err = Resume(Tail(calls[g].todo),
                                     Write(sinks[encoders[calls[g].e].w],
                                           Head(calls[g].todo).p).err,
                                     Head(calls[g].todo).d).err]
    /\ UNCHANGED <<pc, op, major, value, fails, out, err, late, nested, heads, encoders,
                   serial, early>>

\* what a call wrote and what it returned
Outcome(r) == [out |-> r.s.out, err |-> r.err]

\* Encode of each episode, given the same value on sinks that fail alike
EncodeEpisodes ==
    /\ pc = "ready"
    /\ \E v \in EpisodeValues, f \in Sinks :
          /\ Finished("Encode", 0, v, f, Encode(v, f))
          /\ early' = <<Outcome(Encode1(NewSink(f), v)), Outcome(Encode2(NewSink(f), v)),
                        Outcome(Encode3(NewSink(f), v)), Outcome(Encode4(NewSink(f), v))>>

\* SinkHolding with a fault: a call starts on an empty sink
SinkHoldingNothing(b) == NewSink({})

\* the sink of an Encoder, which takes every write, at the start of a call:
\* it holds the bytes b
SinkHolding(b) == [NewSink({}) EXCEPT !.out = b]

\* NewEncoder on a sink that holds the bytes b already
NewEncoderOn ==
    /\ pc = "ready"
    /\ pc' = "serial"
    /\ \E b \in InitialContents :
          /\ out' = b
          /\ serial' = [init |-> b, hist |-> <<>>]
    /\ UNCHANGED <<op, major, value, fails, err, late, nested, heads, calls, sinks, encoders, early>>

\* the state after a further call on the same Encoder returned r
ReturnedOn(v, r) ==
    /\ out' = r.s.out
    /\ err' = r.err
    /\ late' = r.s.late
    /\ nested' = (r.s.broke \/ r.s.unsupported)
    /\ heads' = r.s.heads
    /\ serial' = [serial EXCEPT !.hist = Append(@, [v |-> v, err |-> r.err])]
    /\ op' = "Encode"
    /\ value' = v
    /\ UNCHANGED <<pc, major, fails, calls, sinks, encoders, early>>

\* one more call of Encode on the same Encoder
EncodeOn ==
    /\ pc = "serial"
    /\ Len(serial.hist) < MaxCalls
    /\ \E v \in SerialValues : ReturnedOn(v, encode(SinkHolding(out), v))

\* NewEncoder: another Encoder on another empty sink
StartOver ==
    /\ pc = "done" \/ (pc = "running" /\ \A g \in 1..2 : calls[g].todo = <<>>) \/ pc = "serial"
    /\ calls' = <<NoCall, NoCall>>
    /\ sinks' = <<NewSink({}), NewSink({})>>
    /\ encoders' = <<>>
    /\ serial' = [init |-> <<>>, hist |-> <<>>]
    /\ early' = <<>>
    /\ pc' = "ready"
    /\ op' = "none"
    /\ major' = 0
    /\ value' = Invalid
    /\ fails' = {}
    /\ out' = <<>>
    /\ err' = "nil"
    /\ late' = 0
    /\ nested' = FALSE
    /\ heads' = {}

\* Encode of a slice, a map or a struct holding other values
EncodeContainer ==
    /\ pc = "ready"
    /\ \E v \in ContainerValues, f \in Sinks : Returned("Encode", 0, v, f, Encode(v, f))

\* Encode of a struct with tagged fields
EncodeStruct ==
    /\ pc = "ready"
    /\ \E v \in StructValues, f \in Sinks : Returned("Encode", 0, v, f, Encode(v, f))

\* Encode of a chain of pointers and interfaces
EncodeChain ==
    /\ pc = "ready"
    /\ \E v \in ChainValues, f \in Sinks : Returned("Encode", 0, v, f, Encode(v, f))

\* Encode of a byte slice or a string
EncodeString ==
    /\ pc = "ready"
    /\ \E v \in StringValues, f \in Sinks : Returned("Encode", 0, v, f, Encode(v, f))

\* Encode of nil or a boolean
EncodeSimple ==
    /\ pc = "ready"
    /\ \E v \in SimpleValues, f \in Sinks : Returned("Encode", 0, v, f, Encode(v, f))

\* Encode of a value of a kind without a case
EncodeUnsupported ==
    /\ pc = "ready"
    /\ \E v \in UnsupportedValues, f \in Sinks : Returned("Encode", 0, v, f, Encode(v, f))

\* Encode of a slice or an array, or of a pointer to one
EncodeSequence ==
    /\ pc = "ready"
    /\ \E v \in SequenceValues, f \in Sinks : Returned("Encode", 0, v, f, Encode(v, f))

\* Encode on a sink that may fail more than once
EncodeFlaky ==
    /\ pc = "ready"
    /\ \E v \in FlakyValues, f \in FlakySinks : Returned("Encode", 0, v, f, Encode(v, f))

NextInteger == WriteInteger \/ EncodeInteger \/ StartOver

SpecInteger == Init /\ [][NextInteger]_vars

NextFloat == EncodeFloat \/ StartOver

SpecFloat == Init /\ [][NextFloat]_vars

NextContainer == EncodeContainer \/ StartOver

SpecContainer == Init /\ [][NextContainer]_vars

NextStruct == EncodeStruct \/ StartOver

SpecStruct == Init /\ [][NextStruct]_vars

NextChain == EncodeChain \/ StartOver

SpecChain == Init /\ [][NextChain]_vars

NextString == EncodeString \/ StartOver

SpecString == Init /\ [][NextString]_vars

NextSequence == EncodeSequence \/ StartOver

SpecSequence == Init /\ [][NextSequence]_vars

NextFlaky == EncodeFlaky \/ StartOver

SpecFlaky == Init /\ [][NextFlaky]_vars

NextEpisodes == EncodeEpisodes \/ StartOver

SpecEpisodes == Init /\ [][NextEpisodes]_vars

NextSerial == NewEncoderOn \/ EncodeOn \/ StartOver

SpecSerial == Init /\ [][NextSerial]_vars

NextConcurrent == StartEncodes \/ WriteStep(1) \/ WriteStep(2) \/ StartOver

SpecConcurrent == Init /\ [][NextConcurrent]_vars

Next ==
    \/ WriteInteger
    \/ StartEncodes
    \/ WriteStep(1)
    \/ WriteStep(2)
    \/ EncodeString
    \/ EncodeEpisodes
    \/ NewEncoderOn
    \/ EncodeOn
    \/ EncodeFlaky
    \/ EncodeSequence
    \/ EncodeSimple
    \/ EncodeUnsupported
    \/ EncodeInteger
    \/ EncodeFloat
    \/ EncodeContainer
    \/ EncodeStruct
    \/ EncodeChain
    \/ StartOver

Spec == Init /\ [][Next]_vars

(***************************************************************************)
(* What a reader of the bytes gets back.                                   *)
(***************************************************************************)
\* the float64 that the binary floating point number h denotes, h having
\* one sign bit, eb exponent bits and fb fraction bits
DecodeFloat(h, eb, fb) ==
    LET E == BitsToNat(SubSeq(h, 2, eb + 1))
        m == SubSeq(h, eb + 2, eb + fb + 1)
        bias == 2 ^ (eb - 1) - 1
        ones == {i \in 1..fb : m[i] = 1}
        p == IF ones = {} THEN 0 ELSE CHOOSE i \in ones : \A j \in ones : i <= j
    IN  IF E = 2 ^ eb - 1 THEN <<h[1]>> \o Ones(11) \o m \o Zeros(52 - fb)
        ELSE IF E = 0
        THEN IF ones = {} THEN <<h[1]>> \o Zeros(63)
             ELSE <<h[1]>> \o NatToBits(1023 + 1 - bias - p, 11)
                  \o SubSeq(m, p + 1, fb) \o Zeros(52 - fb + p)
        ELSE <<h[1]>> \o NatToBits(E - bias + 1023, 11) \o m \o Zeros(52 - fb)

\* the width of the float that the bytes o hold, from their header
EmittedWidth(o) ==
    IF o[1] = 249 THEN 16 ELSE IF o[1] = 250 THEN 32 ELSE IF o[1] = 251 THEN 64 ELSE 0

\* the float64 that the bytes o decode to
Decoded(o) ==
    IF o[1] = 249 THEN DecodeFloat(FromBytes(SubSeq(o, 2, 3)), 5, 10)
    ELSE IF o[1] = 250 THEN DecodeFloat(FromBytes(SubSeq(o, 2, 5)), 8, 23)
    ELSE FromBytes(SubSeq(o, 2, 9))

\* f is a value of the format with eb exponent bits and fb fraction bits
Representable(f, eb, fb) ==
    LET e == ExpField(f) - 1023
        emax == 2 ^ (eb - 1) - 1
        emin == 1 - emax
        tz == TrailingZeros64(ZeroExtend(FracField(f), 64))
    IN  \/ IsZero(f) \/ IsInf(f) \/ IsNaN(f)
        \/ /\ ExpField(f) # 0
           /\ \/ emin <= e /\ e <= emax /\ tz >= 52 - fb
              \/ emin - fb <= e /\ e < emin /\ tz >= 52 - (e - (emin - fb))

\* the narrowest of the three widths that holds f exactly
MinimalWidth(f) ==
    IF Representable(f, 5, 10) THEN 16
    ELSE IF Representable(f, 8, 23) THEN 32
    ELSE 64

\* the bytes the table of integer widths gives for the value v under major m
ExpectedInteger(m, v) ==
    LET b == BigEndian(v)
        zero(k) == \A i \in 1..k : b[i] = 0
    IN  IF zero(7) /\ b[8] <= 23 THEN <<32 * m + b[8]>>
        ELSE IF zero(7) THEN <<32 * m + 24, b[8]>>
        ELSE IF zero(6) THEN <<32 * m + 25, b[7], b[8]>>
        ELSE IF zero(4) THEN <<32 * m + 26>> \o SubSeq(b, 5, 8)
        ELSE <<32 * m + 27>> \o b

\* the bytes that follow the header byte h to hold its argument
ArgLen(h) ==
    LET mn == h % 32
    IN  IF mn < 24 THEN 0 ELSE IF mn = 24 THEN 1 ELSE IF mn = 25 THEN 2
        ELSE IF mn = 26 THEN 4 ELSE 8

\* the argument of the item at o[i]: its minor value, or the number that
\* follows the header
Arg(o, i) ==
    IF o[i] % 32 < 24 THEN o[i] % 32
    ELSE BitsToNat(FromBytes(SubSeq(o, i + 1, i + ArgLen(o[i]))))

RECURSIVE ItemEnd(_, _), ItemsEnd(_, _, _)
\* the index after the data item that starts at o[i]; past the end of o when
\* the item is cut short
ItemEnd(o, i) ==
    IF i > Len(o) \/ i + ArgLen(o[i]) > Len(o) THEN Len(o) + 2
    ELSE LET mj == o[i] \div 32
             body == i + 1 + ArgLen(o[i])
         IN  IF mj \in {2, 3} THEN body + Arg(o, i)
             ELSE IF mj = 4 THEN ItemsEnd(o, body, Arg(o, i))
             ELSE IF mj = 5 THEN ItemsEnd(o, body, 2 * Arg(o, i))
             ELSE body

\* the index after n data items that start at o[i]
ItemsEnd(o, i, n) ==
    IF n = 0 THEN i ELSE ItemsEnd(o, ItemEnd(o, i), n - 1)

\* the k-th of the data items that start at o[i]
Item(o, i, k) ==
    LET from == ItemsEnd(o, i, k - 1)
    IN  SubSeq(o, from, ItemEnd(o, from) - 1)

\* the text string item holding the bytes b (fewer than 24)
TextItem(b) == <<96 + Len(b)>> \o b

\* what the directive of a field asks for
Skipped(f) == f.tag = TagSkip
RenameTarget(f) == parseTag(f.tag).name
OmitIfEmpty(f) == Contains(parseTag(f.tag).opts, OmitEmpty)

\* the indices of the fields of the struct x that are to be emitted
Survivors(x) ==
    {i \in 1..Len(x.fields) :
        /\ ~Skipped(x.fields[i])
        /\ ~(OmitIfEmpty(x.fields[i]) /\ isEmptyValue(x.fields[i].val))}

\* the k-th element of a set of numbers in increasing order
Nth(S, k) == CHOOSE i \in S : Cardinality({j \in S : j < i}) = k - 1

\* the key a field is emitted under
Key(f) == IF RenameTarget(f) # <<>> THEN RenameTarget(f) ELSE f.name

\* a call of Encode on a struct has returned without error
StructEncoded ==
    /\ pc = "done"
    /\ op = "Encode"
    /\ value.kind = "Struct"
    /\ err = "nil"

\* a call of Encode on a float has returned without error
FloatEncoded ==
    /\ pc = "done"
    /\ op = "Encode"
    /\ value.kind \in FloatKinds
    /\ err = "nil"

(***************************************************************************)
(* The claims.                                                             *)
(***************************************************************************)

\* C1: decoding the bytes writeFloat emitted, at the width their header
\* names, gives back the input's 64 bits; a NaN may come back as another NaN.
FloatRoundTrip ==
    FloatEncoded =>
        LET input == ValueFloat(value)
        IN  IF IsNaN(input) THEN IsNaN(Decoded(out)) ELSE Decoded(out) = input

\* C2: writeInteger(m, v) writes the header and payload of the narrowest form
\* of the table that holds v, the payload in big-endian order.
IntegerMinimal ==
    (pc = "done" /\ op = "writeInteger" /\ err = "nil") =>
        out = ExpectedInteger(major, value.bits)

\* writeInteger wrote 65536 as an array length: the first 4-byte value
IntegerMinimalWitness ==
    /\ pc = "done"
    /\ op = "writeInteger"
    /\ major = majorArray
    /\ value.bits = U64(<<1, 0, 0>>)
    /\ out = <<154, 0, 1, 0, 0>>

\* C3: writeFloat emits the narrowest of the widths 16, 32, 64 in which the
\* input is exactly representable, float16 subnormals included.
FloatMinimal ==
    FloatEncoded => EmittedWidth(out) = MinimalWidth(ValueFloat(value))

\* a signed n >= -2^30, as a number
SignedValue(n) == BitsToNat(Low(n, 30)) - 2 ^ 30

\* C5: Encode of a signed n writes n under major 0 when n >= 0 and -(n+1)
\* under major 1 when n < 0, the magnitude never overflowing: -1 is 0x20 and
\* the least int64 is 0x3b 7f ff ff ff ff ff ff ff.
SignedMapping ==
    (pc = "done" /\ op = "Encode" /\ value.kind \in IntKinds /\ err = "nil") =>
        LET n == SignExtend(value.bits, 64)
        IN  /\ n[1] = 0 => out = ExpectedInteger(0, n)
            \* n + magnitude = -1: the magnitude is the complement of n
            /\ n[1] = 1 => out = ExpectedInteger(1, BitNot(n))
            /\ (n[1] = 1 /\ SubSeq(n, 1, 34) = Ones(34)) =>
                  out = ExpectedInteger(1, NatToBits(-(SignedValue(n) + 1), 64))
            /\ n = Ones(64) => out = <<32>>
            /\ n = <<1>> \o Zeros(63) =>
                  out = <<59, 127, 255, 255, 255, 255, 255, 255, 255>>

\* Encode wrote the least int64
SignedMappingWitness ==
    /\ pc = "done"
    /\ op = "Encode"
    /\ value = Word("Int64", <<1>> \o Zeros(63))
    /\ out = <<59, 127, 255, 255, 255, 255, 255, 255, 255>>

\* C6: a NaN is emitted as a float16 with exponent field 31, a non-zero
\* fraction field and the sign bit of the input; never as an infinity.
NaNEncoding ==
    (FloatEncoded /\ IsNaN(ValueFloat(value))) =>
        /\ out[1] = 249
        /\ Len(out) = 3
        /\ LET h == FromBytes(SubSeq(out, 2, 3))
           IN  /\ h[1] = ValueFloat(value)[1]
               /\ SubSeq(h, 2, 6) = Ones(5)
               /\ SubSeq(h, 7, 16) # Zeros(10)

\* C7: +0 is f9 00 00, -0 is f9 80 00, +Infinity is f9 7c 00 and -Infinity
\* is f9 fc 00.
ZeroInfinity ==
    FloatEncoded =>
        LET input == ValueFloat(value)
        IN  /\ input = Zeros(64) => out = <<249, 0, 0>>
            /\ input = <<1>> \o Zeros(63) => out = <<249, 128, 0>>
            /\ input = <<0>> \o Ones(11) \o Zeros(52) => out = <<249, 124, 0>>
            /\ input = <<1>> \o Ones(11) \o Zeros(52) => out = <<249, 252, 0>>

\* Encode wrote -Infinity
ZeroInfinityWitness ==
    /\ FloatEncoded
    /\ value = Word("Float64", <<1>> \o Ones(11) \o Zeros(52))
    /\ out = <<249, 252, 0>>

\* C4: when a nested encode step fails, Encode returns an error, never nil.
ErrorPropagation ==
    (pc = "done" /\ op = "Encode" /\ nested) => err # "nil"

\* C8: a struct is written as a map whose header counts the fields emitted:
\* those not skipped and not omitted as empty; the skipped and the omitted
\* ones do not appear; the struct of TestStructTag gives
\* a2 61 61 01 61 62 82 02 03.
RecordOmission ==
    StructEncoded =>
        LET n == out[1] % 32
            surv == Survivors(value)
            keys == {Item(out, 2, 2 * k - 1) : k \in 1..n}
        IN  /\ out[1] \div 32 = majorMap
            /\ n = Cardinality(surv)
            \* the header is followed by n keys and n values and nothing else
            /\ ItemsEnd(out, 2, 2 * n) = Len(out) + 1
            /\ \A i \in 1..Len(value.fields) :
                  (i \notin surv /\ \A j \in surv : Key(value.fields[j]) # value.fields[i].name)
                      => TextItem(value.fields[i].name) \notin keys
            /\ value = TagTestStruct => out = <<162, 97, 97, 1, 97, 98, 130, 2, 3>>

\* Encode wrote the struct of TestStructTag: two of its five fields
RecordOmissionWitness ==
    /\ StructEncoded
    /\ value = TagTestStruct
    /\ out = <<162, 97, 97, 1, 97, 98, 130, 2, 3>>

\* C9: the fields emitted come in declaration order, each as its key, a text
\* string, followed at once by its encoded value; the key is the rename
\* target when there is one and the declared name otherwise.
RecordOrder ==
    StructEncoded =>
        LET surv == Survivors(value)
        IN  \A k \in 1..Cardinality(surv) :
               LET f == value.fields[Nth(surv, k)]
               IN  /\ Item(out, 2, 2 * k - 1) = TextItem(Key(f))
                   /\ Item(out, 2, 2 * k) = Encode(f.val, {}).s.out

\* Encode wrote a renamed field and then a field under its declared name
RecordOrderWitness ==
    /\ StructEncoded
    /\ value = Struct(<<[name |-> <<65>>,
                         exported |-> TRUE, embedded |-> FALSE, tag |-> <<120>>, val |-> IntValue(1)],
                        [name |-> <<66>>,
                         exported |-> TRUE, embedded |-> FALSE, tag |-> <<>>,
                         val |-> Slice("Int", <<IntValue(2), IntValue(3)>>)]>>)
    /\ out = <<162, 97, 120, 1, 97, 66, 130, 2, 3>>

\* C10: a chain of pointers and interfaces that holds a value V at its end
\* encodes as V does; a chain that ends in nil encodes as the byte 0xf6.
PointerChain ==
    (pc = "done" /\ op = "Encode") =>
        \A sh \in ChainShapes :
            /\ \A v \in ChainBases :
                  value = Chain(sh, v) =>
                      /\ out = Encode(v, fails).s.out
                      /\ err = Encode(v, fails).err
            /\ (value = NilChain(sh) /\ 1 \notin fails) =>
                  (out = <<246>> /\ err = "nil")

\* Encode followed a pointer to an interface holding a pointer to 10
PointerChainWitness ==
    /\ pc = "done"
    /\ op = "Encode"
    /\ value = Chain(<<"Ptr", "Interface", "Ptr">>, Word("Uint", U64(<<10>>)))
    /\ fails = {}
    /\ out = <<10>>
    /\ err = "nil"

(***************************************************************************)
(* Arrays.                                                                 *)
(***************************************************************************)
RECURSIVE ElementsEncoded(_, _)
\* the encodings of the elements es[i..], each as Encode gives it alone, one
\* after the other
ElementsEncoded(es, i) ==
    IF i > Len(es) THEN <<>>
    ELSE Encode(es[i], {}).s.out \o ElementsEncoded(es, i + 1)

\* a call of Encode on a slice or an array whose elements are not bytes has
\* returned without error, no step inside it having met one
ArrayEncoded ==
    /\ pc = "done" /\ op = "Encode" /\ err = "nil" /\ ~nested
    /\ value.kind \in {"Slice", "Array"}
    /\ value.elemKind # "Uint8"

\* C11: a sequence of N elements that are not bytes is encoded as a major-4
\* header that carries N in the shortest integer form, followed by the
\* encodings of the N elements in index order and nothing else; the empty
\* sequence is the single byte 0x80
ArrayEncoding ==
    ArrayEncoded =>
        /\ out = ExpectedInteger(majorArray, NatToBits(Len(value.elems), 64))
                    \o ElementsEncoded(value.elems, 1)
        /\ (value.elems = <<>> => out = <<128>>)

\* TestArray: the 25 numbers 1..25 come out as 98 19 01 .. 17 18 18 18 19
ArrayEncodingWitness ==
    /\ ArrayEncoded
    /\ value = LongSlice
    /\ Len(out) = 29
    /\ SubSeq(out, 1, 3) = <<152, 25, 1>>
    /\ SubSeq(out, 25, 29) = <<23, 24, 24, 24, 25>>

(***************************************************************************)
(* Maps.                                                                   *)
(***************************************************************************)
\* the orders the entries of a map of n pairs can be visited in
Orders(n) == {q \in [1..n -> 1..n] : \A i, j \in 1..n : i # j => q[i] # q[j]}

RECURSIVE GroupsEncoded(_, _, _)
\* the key/value groups of the pairs ps taken in the order q from its i-th
\* place on: the encoding of a key, then the encoding of its value
GroupsEncoded(ps, q, i) ==
    IF i > Len(q) THEN <<>>
    ELSE (Encode(ps[q[i]].key, {}).s.out \o Encode(ps[q[i]].val, {}).s.out)
             \o GroupsEncoded(ps, q, i + 1)

\* a call of Encode on a map has returned without error, no step inside it
\* having met one
MapEncoded ==
    /\ pc = "done" /\ op = "Encode" /\ err = "nil" /\ ~nested
    /\ value.kind = "Map"

\* C12: a map of P pairs is encoded as a major-5 header that carries P,
\* followed by P key/value groups in some order, each the encoding of a key
\* and right after it the encoding of its value, every pair once
MapEncoding ==
    MapEncoded =>
        \E q \in Orders(Len(value.pairs)) :
            out = ExpectedInteger(majorMap, NatToBits(Len(value.pairs), 64))
                    \o GroupsEncoded(value.pairs, q, 1)

(***************************************************************************)
(* Byte strings and text strings.                                          *)
(***************************************************************************)
\* the value behind a pointer
Pointee(x) == IF x.kind = "Ptr" THEN x.elem ELSE x

\* a call of Encode on a slice or an array of bytes has returned without
\* error
ByteStringEncoded ==
    /\ pc = "done" /\ op = "Encode" /\ err = "nil"
    /\ Pointee(value).kind \in {"Slice", "Array"}
    /\ Pointee(value).elemKind = "Uint8"

\* the numbers a sequence of uint8 values holds
Numbers(es) == [i \in 1..Len(es) |-> BitsToNat(es[i].bits)]

\* C13: a byte sequence of length L is encoded as a major-2 header that
\* carries L in the shortest integer form, followed by the L bytes as they
\* are, in order; the empty byte sequence is the single byte 0x40
ByteStringEncoding ==
    ByteStringEncoded =>
        /\ out = ExpectedInteger(majorByteString,
                                 NatToBits(Len(Pointee(value).elems), 64))
                    \o Numbers(Pointee(value).elems)
        /\ (Pointee(value).elems = <<>> => out = <<64>>)

\* 256 bytes come out behind the header 59 01 00
ByteStringEncodingWitness ==
    /\ ByteStringEncoded
    /\ value.kind = "Slice"
    /\ Len(value.elems) = 256
    /\ Len(out) = 259
    /\ SubSeq(out, 1, 5) = <<89, 1, 0, 0, 1>>
    /\ out[259] = 255

\* a call of Encode on a string has returned without error
TextEncoded ==
    /\ pc = "done" /\ op = "Encode" /\ err = "nil"
    /\ value.kind = "String"

\* the characters of well-formed UTF-8 text: every byte but the
\* continuation bytes starts one
Characters(b) == Cardinality({i \in 1..Len(b) : b[i] \div 64 # 2})

\* C14: a text string is encoded as a major-3 header that carries the number
\* of bytes of its UTF-8 form, not the number of its characters, followed by
\* those bytes; one character of three bytes gets the header 0x63 and the
\* empty string is the single byte 0x60
TextEncoding ==
    TextEncoded =>
        /\ out = ExpectedInteger(majorUnicodeString, NatToBits(Len(value.bytes), 64))
                    \o value.bytes
        /\ (Characters(value.bytes) = 1 /\ Len(value.bytes) = 3 => out[1] = 99)
        /\ (value.bytes = <<>> => out = <<96>>)

\* TestUnicodeString: the one character U+6C34 comes out as 63 e6 b0 b4
TextEncodingWitness ==
    /\ TextEncoded
    /\ Characters(value.bytes) = 1
    /\ out = <<99, 230, 176, 180>>

(***************************************************************************)
(* Simple values and unsupported kinds.                                    *)
(***************************************************************************)
\* a call of Encode on nil or a boolean has returned, the sink having taken
\* the first Write call
SimpleEncoded ==
    /\ pc = "done" /\ op = "Encode" /\ 1 \notin fails
    /\ \/ value.kind \in {"Invalid", "Bool"}
       \/ value.kind = "Ptr" /\ value.isNil

\* C15: Encode of nil, of false and of true writes exactly one byte and
\* returns no error: 0xf6 for nil, 0xf4 for false, 0xf5 for true
SimpleValuesEncoding ==
    SimpleEncoded =>
        /\ err = "nil"
        /\ Len(out) = 1
        /\ (value.kind # "Bool" => out = <<246>>)
        /\ (value.kind = "Bool" /\ ~value.b => out = <<244>>)
        /\ (value.kind = "Bool" /\ value.b => out = <<245>>)

\* TestBool: true comes out as f5
SimpleValuesEncodingWitness ==
    /\ SimpleEncoded
    /\ value = Bool(TRUE)
    /\ out = <<245>>

\* the kinds encode has a case for
SupportedKinds ==
    {"Invalid", "Interface", "Ptr", "Bool", "Array", "Slice", "String", "Map",
     "Struct"} \cup IntKinds \cup UintKinds \cup FloatKinds

\* C16: Encode of a value of a kind it does not support returns
\* ErrNotImplemented, whether the value is the one given to Encode or is met
\* at any depth inside a container on a sink that takes every write
UnsupportedShapes ==
    /\ (pc = "done" /\ op = "Encode" /\ value.kind \notin SupportedKinds)
           => err = "ErrNotImplemented"
    /\ (pc = "done" /\ op = "Encode" /\ fails = {} /\ nested)
           => err = "ErrNotImplemented"

(***************************************************************************)
(* The subset of the wire format.                                          *)
(***************************************************************************)
\* the major type and the minor value of a header byte
MajorOf(h) == h \div 32
MinorOf(h) == h % 32

\* C17: every header byte a call of Encode hands to the sink has a major
\* type among 0, 1, 2, 3, 4, 5 and 7, never 6, a minor value that is none of
\* 28, 29, 30 and 31, and with major type 7 a minor value among 20, 21, 22,
\* 25, 26 and 27
WireSubset ==
    op = "Encode" =>
      \A h \in heads :
        /\ h \in 0..255
        /\ MajorOf(h) \in {0, 1, 2, 3, 4, 5, 7}
        /\ MinorOf(h) \notin 28..31
        /\ (MajorOf(h) = 7 => MinorOf(h) \in {20, 21, 22, 25, 26, 27})

\* {"a": 1, "b": [2, 3]}: the headers a2, 61 and 62, 01, 82, 02 and 03
WireSubsetWitness ==
    /\ pc = "done" /\ op = "Encode" /\ err = "nil"
    /\ value.kind = "Map"
    /\ heads = {162, 97, 1, 130, 2, 3}

(***************************************************************************)
(* Failing sinks.                                                          *)
(***************************************************************************)
\* C18: within one call of Encode, once a Write call on the sink has failed
\* no further Write call is attempted, wherever the failing write lies: in a
\* header, an integer payload, a string body, an array element, a struct
\* field, a map key or a map value
FailFast ==
    (pc = "done" /\ op = "Encode") => late = 0

(***************************************************************************)
(* Calls that run at once.                                                 *)
(***************************************************************************)
RECURSIVE Flat(_, _)
\* the bytes of the first k of the Write calls ws
Flat(ws, k) == IF k = 0 THEN <<>> ELSE Flat(ws, k - 1) \o ws[k]

\* C19: when two calls of Encode run at once on two Encoders with sinks of
\* their own, then however their Write calls interleave each sink holds
\* exactly the bytes its call would have written alone so far, and in the
\* end the bytes of the whole value; no byte of one call reaches the sink of
\* the other
Independence ==
    pc = "running" =>
        \A g \in 1..2 :
            /\ Len(sinks[g].writes) <= Len(Encode(calls[g].v, sinks[g].fails).s.writes)
            /\ sinks[g].out = Flat(Encode(calls[g].v, sinks[g].fails).s.writes,
                                   Len(sinks[g].writes))
            /\ calls[g].todo = <<>> =>
                  /\ sinks[g].out = Encode(calls[g].v, sinks[g].fails).s.out
                  /\ sinks[g].n = Encode(calls[g].v, sinks[g].fails).s.n
                  /\ calls[g].err = Encode(calls[g].v, sinks[g].fails).err

\* [2, 3] and "a" under way: two Write calls of the first, one of the second
IndependenceWitness ==
    /\ pc = "running"
    /\ encoders[calls[1].e].w # encoders[calls[2].e].w
    /\ calls[1].v = Slice("Int", <<IntValue(2), IntValue(3)>>) /\ sinks[1].n = 2
    /\ calls[2].v = String(StrA) /\ sinks[2].n = 1
    /\ sinks[1].out = <<130, 2>> /\ sinks[2].out = <<97>>
    /\ calls[1].todo # <<>> /\ calls[2].todo # <<>>

(***************************************************************************)
(* The width rules of writeFloat.                                          *)
(***************************************************************************)
\* the float64 given to a call of Encode that has returned without error is
\* finite and not zero
FiniteEncoded ==
    /\ FloatEncoded
    /\ ExpField(ValueFloat(value)) # 2047
    /\ ~IsZero(ValueFloat(value))

\* the unbiased exponent of the float64 f
Unbiased(f) == ExpField(f) - 1023

\* the zero bits at the low end of the 52 fraction bits of f, 52 when all
\* are zero
FracZeros(f) ==
    IF FracField(f) = Zeros(52) THEN 52
    ELSE 52 - (CHOOSE i \in 1..52 :
                   FracField(f)[i] = 1 /\ \A j \in (i + 1)..52 : FracField(f)[j] = 0)

\* the rule of the 16-bit form
Fits16(f) == -14 <= Unbiased(f) /\ Unbiased(f) <= 15 /\ FracZeros(f) >= 42

\* C20: for a finite float64 that is not zero, with unbiased exponent e and
\* t trailing zero bits in its fraction, writeFloat emits the float16 form
\* exactly when -14 <= e <= 15 and t >= 42, and the 16 bits are then the
\* sign bit, the exponent field e + 15 and the top 10 bits of the fraction
Float16Rule ==
    FiniteEncoded =>
        /\ (out[1] = 249) <=> Fits16(ValueFloat(value))
        /\ (out[1] = 249 =>
               FromBytes(SubSeq(out, 2, 3))
                 = (<<ValueFloat(value)[1]>>
                      \o NatToBits(Unbiased(ValueFloat(value)) + 15, 5))
                      \o SubSeq(FracField(ValueFloat(value)), 1, 10))

\* the rule of the 32-bit form
Fits32(f) == -126 <= Unbiased(f) /\ Unbiased(f) <= 127 /\ FracZeros(f) >= 29

\* the test of the float32 case of writeFloat
Float32Test(f) == FloatEq(Float32To64(Float64To32(f)), f)

\* C21: a finite float64 that is not zero and does not take the 16-bit form
\* is emitted in the float32 form, the header 0xfa and the four bytes of
\* the single-precision value, exactly when -126 <= e <= 127 and its
\* fraction has at least 29 trailing zero bits; the test
\* float64(float32(input)) == input picks the same inputs as that condition
Float32Rule ==
    (FiniteEncoded /\ out[1] # 249) =>
        /\ (out[1] = 250) <=> Fits32(ValueFloat(value))
        /\ (out[1] = 250 =>
               FromBytes(SubSeq(out, 2, 5))
                 = (<<ValueFloat(value)[1]>>
                      \o NatToBits(Unbiased(ValueFloat(value)) + 127, 8))
                      \o SubSeq(FracField(ValueFloat(value)), 1, 23))
        /\ Float32Test(ValueFloat(value)) <=> Fits32(ValueFloat(value))

(***************************************************************************)
(* Sequences of bytes and sequences of other elements.                     *)
(***************************************************************************)
\* a call of Encode on a slice or an array, or on a pointer to one, has
\* returned without error
SequenceEncoded ==
    /\ pc = "done" /\ op = "Encode" /\ err = "nil"
    /\ Pointee(value).kind \in {"Slice", "Array"}

RECURSIVE AsSlices(_)
\* the value x with a slice of the same elements in the place of every
\* array
AsSlices(x) ==
    CASE x.kind \in {"Array", "Slice"} ->
            Slice(x.elemKind, [i \in 1..Len(x.elems) |-> AsSlices(x.elems[i])])
      [] x.kind \in {"Ptr", "Interface"} -> [x EXCEPT !.elem = AsSlices(x.elem)]
      [] x.kind = "Struct" ->
            Struct([i \in 1..Len(x.fields) |->
                       [x.fields[i] EXCEPT !.val = AsSlices(x.fields[i].val)]])
      [] OTHER -> x

\* C22: a slice or an array of one-byte unsigned integers is encoded as a
\* byte string (major type 2), never as an array, also when it is empty
\* and when it is behind a pointer; a slice or an array of any other
\* element type is encoded as an array (major type 4); an array is encoded
\* to the bytes of the slice of the same elements, so a call given arrays
\* ends as the call given the slices of the same elements
ByteSequences ==
    (pc = "done" /\ op = "Encode") =>
        /\ SequenceEncoded =>
              /\ (Pointee(value).elemKind = "Uint8" => MajorOf(out[1]) = majorByteString)
              /\ (Pointee(value).elemKind # "Uint8" => MajorOf(out[1]) = majorArray)
        /\ out = Encode(AsSlices(value), fails).s.out
        /\ err = Encode(AsSlices(value), fails).err

(***************************************************************************)
(* What a failed call leaves in the sink.                                  *)
(***************************************************************************)
\* a is b cut short
ProperPrefix(a, b) == Len(a) < Len(b) /\ a = SubSeq(b, 1, Len(a))

\* C23: when a call of Encode fails because a Write call on the sink
\* failed, the bytes the sink took during the call are a proper prefix of
\* the bytes a sink that never fails receives for the same value: nothing
\* written is taken back and nothing follows the point of failure
PrefixOnFailure ==
    (pc = "done" /\ op = "Encode" /\ err = "ErrIO")
        => ProperPrefix(out, Encode(value, {}).s.out)

(***************************************************************************)
(* The shape of the output.                                                *)
(***************************************************************************)
\* C24: when Encode returns nil on a sink that never fails, the bytes
\* written are one complete data item and nothing more: the items counted
\* by every array and map header and the bytes counted by every string
\* header are all there
WellFormed ==
    (pc = "done" /\ op = "Encode" /\ fails = {} /\ err = "nil")
        => (out # <<>> /\ ItemEnd(out, 1) = Len(out) + 1)

\* C25: a finite float64 with the unbiased exponent -24 is emitted in the
\* float16 form only when its fraction has at least 42 trailing zero bits;
\* otherwise it is emitted in the float32 form only if
\* float64(float32(input)) == input, and in the float64 form in every other
\* case; the float32 form is never written for an input that single
\* precision does not hold exactly
SubnormalFallthrough ==
    FiniteEncoded =>
        /\ (out[1] = 250 => Float32Test(ValueFloat(value)))
        /\ (Unbiased(ValueFloat(value)) = -24 =>
              /\ (out[1] = 249 => FracZeros(ValueFloat(value)) >= 42)
              /\ (out[1] # 249 =>
                    IF Float32Test(ValueFloat(value)) THEN out[1] = 250
                    ELSE out[1] = 251))

(***************************************************************************)
(* Calls made one after the other.                                         *)
(***************************************************************************)
\* every call made so far on the Encoder returned nil, or returned
\* ErrNotImplemented for a value that is itself of an unsupported kind
CallsSucceeded ==
    \A i \in 1..Len(serial.hist) :
        \/ serial.hist[i].err = "nil"
        \/ /\ serial.hist[i].err = "ErrNotImplemented"
           /\ serial.hist[i].v.kind \notin SupportedKinds

RECURSIVE Composed(_, _)
\* what fresh Encoders write for the first k values of h that were encoded,
\* one after the other
Composed(h, k) ==
    IF k = 0 THEN <<>>
    ELSE Composed(h, k - 1)
           \o (IF h[k].err = "nil" THEN Encode(h[k].v, {}).s.out ELSE <<>>)

\* C26: an Encoder keeps nothing between calls but its sink: after calls
\* Encode(v1), ..., Encode(vn) on one Encoder that succeeded, the sink holds
\* what it held at first followed by what a fresh Encoder writes for v1,
\* ..., for vn, so no call changes the bytes of an earlier one; a call that
\* fails with ErrNotImplemented for the value given to it leaves the sink
\* as it was
Composition ==
    (pc = "serial" /\ CallsSucceeded)
        => out = serial.init \o Composed(serial.hist, Len(serial.hist))

\* on a sink holding ff: 1, then a channel, then "a" leave ff 01 61 61
CompositionWitness ==
    /\ pc = "serial" /\ CallsSucceeded
    /\ Len(serial.hist) = 3
    /\ serial.hist[2].v = Chan
    /\ out = <<255, 1, 97, 97>>

(***************************************************************************)
(* Reading integers back.                                                  *)
(***************************************************************************)
\* the header rule applied to the bytes o: a minor of 0 to 23 is the value,
\* a minor of 24, 25, 26, 27 says that the next 1, 2, 4, 8 bytes are the
\* value, big-endian; len is the number of bytes read
ReadInteger(o) ==
    IF MinorOf(o[1]) <= 23
    THEN [major |-> MajorOf(o[1]), value |-> NatToBits(MinorOf(o[1]), 64), len |-> 1]
    ELSE [major |-> MajorOf(o[1]),
          value |-> U64(SubSeq(o, 2, 1 + 2 ^ (MinorOf(o[1]) - 24))),
          len |-> 1 + 2 ^ (MinorOf(o[1]) - 24)]

\* the bytes writeInteger writes for the value w under the major type maj
IntegerBytes(maj, w) == writeInteger(NewSink({}), maj, w).s.out

IntegerWritten == pc = "done" /\ op = "writeInteger" /\ err = "nil"

\* C27: for a fixed major type, reading the bytes of writeInteger back by
\* the header rule gives the major type and the value written and reads
\* every byte; two different values never have the same bytes, and the
\* bytes of one value are never a proper prefix of the bytes of another
IntegerDecodable ==
    IntegerWritten =>
        /\ MinorOf(out[1]) <= 27
        /\ Len(out) = ReadInteger(out).len
        /\ ReadInteger(out).major = major
        /\ ReadInteger(out).value = value.bits
        /\ \A w \in UintSamples \ {value.bits} :
              /\ IntegerBytes(major, w) # out
              /\ ~ProperPrefix(out, IntegerBytes(major, w))
              /\ ~ProperPrefix(IntegerBytes(major, w), out)

\* -257 as major type 1 with the value 256: 39 01 00
IntegerDecodableWitness ==
    /\ IntegerWritten
    /\ major = majorNegativeInteger
    /\ value.bits = U64(<<1, 0>>)
    /\ out = <<57, 1, 0>>

(***************************************************************************)
(* Floats of 32 bits.                                                      *)
(***************************************************************************)
Float32Encoded == pc = "done" /\ op = "Encode" /\ err = "nil" /\ value.kind = "Float32"

\* C28: a float32 is promoted to a float64 and then written in the
\* shortest form: its bytes are those of the float64 of the same value,
\* and they are always the 3 bytes of the float16 form or the 5 bytes of
\* the float32 form, never the 9 bytes of the float64 form, also for
\* subnormals, infinities and NaNs
SingleNeverWidens ==
    Float32Encoded =>
        /\ out = Encode(Word("Float64", Float32To64(value.bits)), fails).s.out
        /\ \/ out[1] = 249 /\ Len(out) = 3
           \/ out[1] = 250 /\ Len(out) = 5

\* the smallest float32 subnormal, 2^-149, is written fa 00 00 00 01
SingleNeverWidensWitness ==
    /\ Float32Encoded
    /\ value.bits = F32(0, 0, {0})
    /\ out = <<250, 0, 0, 0, 1>>

(***************************************************************************)
(* The episodes.                                                           *)
(***************************************************************************)
EpisodesEncoded == pc = "done" /\ Len(early) = 4

\* C29: whenever Encode of episode 1, 2, 3 or 4 returns nil for a value,
\* Encode of episode 9 returns nil for it too and writes the same bytes
Refinement ==
    EpisodesEncoded =>
        \A k \in 1..4 : early[k].err = "nil" => (err = "nil" /\ out = early[k].out)

\* a pointer to a pointer to uint16(1000): only episode 4 takes it, and
\* writes 19 03 e8
RefinementWitness ==
    /\ EpisodesEncoded
    /\ value = Ptr(Ptr(Word("Uint16", FromBytes(<<3, 232>>))))
    /\ early[3].err = "ErrNotImplemented"
    /\ early[4] = [out |-> <<25, 3, 232>>, err |-> "nil"]
    /\ out = <<25, 3, 232>>
====
